---- MODULE Spec2Model ----
(***************************************************************************)
(* The mountstats parser, the mount filter configuration and the           *)
(* dispatcher of the collectd nfs plugin (src/src/nfs.c).                   *)
(*                                                                         *)
(* C strings are sequences of one-character strings without their          *)
(* terminator; a pointer into a buffer is the suffix it points at.         *)
(***************************************************************************)
EXTENDS Integers, Sequences, FiniteSets, TLC

VARIABLES
    config_mountpoints,                  \* static c_avl_tree_t *config_mountpoints
    enable_client_stats_per_mountpoint,  \* static short
    proc_self_mountstats_is_available,   \* static short
    pc,           \* "idle" | "parsing" | "aborted" (a failed assert)
    state,        \* proc_self_mountstats_state_e of the running pass
    mountstats,   \* mountstats_t of the running (or last) pass
    consumed,     \* ids of the lines fgets returned in this pass, in order
    submitted,    \* records handed to mountstats_submit in this pass
    emitted,      \* samples given to plugin_dispatch_values in this pass
    result,       \* how the last pass / handler ended
    cfgtrace,     \* the last nfs_config_cb call: its input and return value
    curline,      \* the input a single-step run is given: the line of one
                  \* iteration, or the perop_statistics string of one load
    failed        \* the places of the plugin_dispatch_values calls that returned
                  \* an error (dispatcher runs)

vars == <<config_mountpoints, enable_client_stats_per_mountpoint,
          proc_self_mountstats_is_available, pc, state, mountstats,
          consumed, submitted, emitted, result, cfgtrace, curline, failed>>

-----------------------------------------------------------------------------
(* Bounds of the model *)

\* lines one pass of the parser reads at most (parser specification)
MaxLines == 5
\* lines one pass reads at most in the plugin life-cycle specification
MaxLinesLife == 2
\* width in bits of unsigned long long / long / time_t in the model
ULL_BITS == 16

-----------------------------------------------------------------------------
(* Program constants *)

NB_NFS_EVENT_COUNTERS == 25
NB_NFS_BYTE_COUNTERS == 8
NB_NFS_XPRT_UDP == 7
NB_NFS_XPRT_TCP == 10
NB_NFS_XPRT_RDMA == 19
MAX3(x, y, z) == IF (IF x > y THEN x ELSE y) > z
                 THEN (IF x > y THEN x ELSE y) ELSE z
NB_NFS_XPRT_ANY == MAX3(NB_NFS_XPRT_UDP, NB_NFS_XPRT_TCP, NB_NFS_XPRT_RDMA)
OP_NAME_SIZE == 1024
OP_CHUNK == 50
NB_OP_METRICS == 8
DEFAULT_MIN_AGE == 3600

ULLONG_MAX == 2 ^ ULL_BITS - 1
LONG_MAX == 2 ^ (ULL_BITS - 1) - 1

-----------------------------------------------------------------------------
(* Strings *)

NUL == "NUL"                 \* a '\0' written inside a buffer
NULL == <<"NULL">>           \* the null char pointer
Blank == {" ", "\t"}
IsSpace == {" ", "\t", "\n", "\r"}
Digits == {"0", "1", "2", "3", "4", "5", "6", "7", "8", "9"}

Take(s, n) == SubSeq(s, 1, n)
Drop(s, n) == SubSeq(s, n + 1, Len(s))

\* !strncmp(s, lit, sizeof(lit)-1)
HasPrefix(s, lit) == Len(s) >= Len(lit) /\ SubSeq(s, 1, Len(lit)) = lit

\* first index >= i of s whose character is not in set (Len(s)+1: none)
RECURSIVE SkipIdx(_, _, _)
SkipIdx(s, i, set) ==
    IF i <= Len(s) /\ s[i] \in set THEN SkipIdx(s, i + 1, set) ELSE i

\* first index >= i of s whose character is in set (Len(s)+1: none)
RECURSIVE ScanIdx(_, _, _)
ScanIdx(s, i, set) ==
    IF i <= Len(s) /\ s[i] \notin set THEN ScanIdx(s, i + 1, set) ELSE i

NEXT_NON_SPACE_CHAR(s) == Drop(s, SkipIdx(s, 1, Blank) - 1)

\* the C string at the head of a buffer that holds NUL marks
CStr(b) == Take(b, ScanIdx(b, 1, {NUL}) - 1)

\* strstr: index of the first occurrence of needle in s at or after i, 0 if none
RECURSIVE StrStrFrom(_, _, _)
StrStrFrom(s, needle, i) ==
    IF i + Len(needle) - 1 > Len(s) THEN 0
    ELSE IF SubSeq(s, i, i + Len(needle) - 1) = needle THEN i
    ELSE StrStrFrom(s, needle, i + 1)

strstr(s, needle) == StrStrFrom(s, needle, 1)

DigitVal(c) ==
    CASE c = "0" -> 0 [] c = "1" -> 1 [] c = "2" -> 2 [] c = "3" -> 3
      [] c = "4" -> 4 [] c = "5" -> 5 [] c = "6" -> 6 [] c = "7" -> 7
      [] c = "8" -> 8 [] c = "9" -> 9

\* the digit run of s starting at i, accumulated and saturated at max
RECURSIVE AccDigits(_, _, _, _, _)
AccDigits(s, i, acc, ovf, max) ==
    IF i <= Len(s) /\ s[i] \in Digits
    THEN LET v == acc * 10 + DigitVal(s[i])
         IN  IF ovf \/ v > max
             THEN AccDigits(s, i + 1, max, TRUE, max)
             ELSE AccDigits(s, i + 1, v, FALSE, max)
    ELSE [val |-> acc, end |-> i, ovf |-> ovf]

\* strtoull(s, &endptr, 10): white space, an optional sign, digits.
\* rest is the string at endptr; errno is "ERANGE" on overflow.
strtoull(s) ==
    LET i0 == SkipIdx(s, 1, IsSpace)
        sign == i0 <= Len(s) /\ s[i0] \in {"+", "-"}
        neg == i0 <= Len(s) /\ s[i0] = "-"
        i1 == IF sign THEN i0 + 1 ELSE i0
        r == AccDigits(s, i1, 0, FALSE, ULLONG_MAX)
    IN  IF r.end = i1
        THEN [val |-> 0, rest |-> s, conv |-> FALSE, errno |-> "0"]
        ELSE [val |-> IF r.ovf THEN ULLONG_MAX
                      ELSE IF neg THEN (ULLONG_MAX + 1 - r.val) % (ULLONG_MAX + 1)
                      ELSE r.val,
              rest |-> Drop(s, r.end - 1),
              conv |-> TRUE,
              errno |-> IF r.ovf THEN "ERANGE" ELSE "0"]

\* strtol(s, NULL, 10)
strtol(s) ==
    LET i0 == SkipIdx(s, 1, IsSpace)
        sign == i0 <= Len(s) /\ s[i0] \in {"+", "-"}
        neg == i0 <= Len(s) /\ s[i0] = "-"
        i1 == IF sign THEN i0 + 1 ELSE i0
        r == AccDigits(s, i1, 0, FALSE, IF neg THEN LONG_MAX + 1 ELSE LONG_MAX)
    IN  IF r.end = i1
        THEN [val |-> 0, conv |-> FALSE, errno |-> "0"]
        ELSE [val |-> IF neg THEN 0 - r.val ELSE r.val,
              conv |-> TRUE,
              errno |-> IF r.ovf THEN "ERANGE" ELSE "0"]

\* string_to_array_of_Lu(str, a, n): the loop from index i (0-based) on.
\* Returns the count (-1: failure) and the array as the writes left it.
RECURSIVE LuLoop(_, _, _, _)
LuLoop(s0, a, n, i) ==
    IF i >= n THEN [n |-> i, a |-> a]
    ELSE LET s == NEXT_NON_SPACE_CHAR(s0)
         IN  IF s = <<>> \/ s[1] = "\n" \/ s[1] = NUL THEN [n |-> i, a |-> a]
             ELSE LET r == strtoull(s)
                      a1 == [a EXCEPT ![i + 1] = r.val]
                  IN  IF r.errno # "0" \/ ~r.conv
                      THEN [n |-> -1, a |-> a1]
                      ELSE LuLoop(r.rest, a1, n, i + 1)

\* string_to_array_of_Lu that returns n when the string ends early
string_to_array_of_Lu_ReturnN(str, a, n) ==
    [n |-> IF LuLoop(str, a, n, 0).n = -1 THEN -1 ELSE n, a |-> LuLoop(str, a, n, 0).a]

\* string_to_array_of_Lu with the loop bound i <= n
string_to_array_of_Lu_OneMore(str, a, n) == LuLoop(str, a, n + 1, 0)

string_to_array_of_Lu(str, a, n) == LuLoop(str, a, n, 0)

Zeros(n) == [i \in 1..n |-> 0]

-----------------------------------------------------------------------------
(* Mount filter configuration *)

\* a c_avl_tree_t pointer: NULL, or a tree from keys to values
NULLTREE == [alloc |-> FALSE, tree |-> <<>>]
c_avl_create == [alloc |-> TRUE, tree |-> <<>>]

\* c_avl_get(t, key, &v) == 0
c_avl_has(t, key) == key \in DOMAIN t.tree

\* c_avl_insert(t, key, value): an existing key is left as it is
c_avl_insert(t, key, value) ==
    IF key \in DOMAIN t.tree THEN t
    ELSE [t EXCEPT !.tree = [k \in DOMAIN t.tree \cup {key} |->
                                IF k = key THEN value ELSE t.tree[k]]]

ALL == <<"a", "l", "l">>
\* the delimiters without the semicolon
PeropDelims_NoSemicolon == {" ", "\t", ","}

\* the characters the loop of the perop_statistics parser skips and stops at
PeropDelims == {" ", "\t", ",", ";"}

\* the while(is_not_last) loop of nfs_mountpoints_config_parse_perop_statistics:
\* buf is perop_statistics_string (mutated in place), i the 1-based place of s1
RECURSIVE PeropLoop(_, _, _)
PeropLoop(buf, i, tree) ==
    LET s1 == SkipIdx(buf, i, PeropDelims)
    IN  IF s1 > Len(buf) THEN [tree |-> tree, str |-> buf]
        ELSE LET s2 == ScanIdx(buf, s1, PeropDelims)
                 tok == SubSeq(buf, s1, s2 - 1)
                 t2 == c_avl_insert(tree, tok, tok)
             IN  IF s2 > Len(buf)
                 THEN [tree |-> t2, str |-> buf]
                 ELSE PeropLoop([buf EXCEPT ![s2] = NUL], s2 + 1, t2)

\* nfs_mountpoints_config_parse_perop_statistics(str, item)
nfs_mountpoints_config_parse_perop_statistics(str, item, alloc_ok) ==
    IF str = ALL
    THEN IF ~alloc_ok
         THEN [ret |-> -1, item |-> [item EXCEPT !.perop_statistics = NULLTREE,
                                                 !.perop_statistics_string = NULL]]
         ELSE [ret |-> 0, item |-> [item EXCEPT !.perop_statistics = NULLTREE,
                                                !.perop_statistics_string = ALL]]
    ELSE IF str = <<>>
    THEN [ret |-> 0, item |-> [item EXCEPT !.perop_statistics = NULLTREE,
                                           !.perop_statistics_string = NULL]]
    ELSE IF ~alloc_ok
    THEN [ret |-> -1, item |-> [item EXCEPT !.perop_statistics = NULLTREE,
                                            !.perop_statistics_string = NULL]]
    ELSE LET r == PeropLoop(str, 1, c_avl_create)
         IN  [ret |-> 0, item |-> [item EXCEPT !.perop_statistics = r.tree,
                                               !.perop_statistics_string = r.str]]

\* the for (ci->children) loop of config_nfs_mountpoint_add, from child i on
RECURSIVE MountpointChildren(_, _, _, _)
MountpointChildren(children, i, item, alloc_ok) ==
    IF i > Len(children) THEN [status |-> 0, item |-> item]
    ELSE LET child == children[i]
         IN  IF child.key = "min_age"
             THEN IF child.type # "number"
                  THEN [status |-> -1, item |-> item]
                  ELSE MountpointChildren(children, i + 1,
                           [item EXCEPT !.min_age = child.value], alloc_ok)
             ELSE IF child.key = "perop_statistics"
             THEN IF child.type # "string"
                  THEN [status |-> -1, item |-> item]
                  ELSE LET r == nfs_mountpoints_config_parse_perop_statistics(
                                    child.value, item, alloc_ok)
                       IN  IF r.ret # 0
                           THEN [status |-> -1, item |-> r.item]
                           ELSE MountpointChildren(children, i + 1, r.item, alloc_ok)
             ELSE IF child.key = "show"
             THEN IF child.type # "boolean"
                  THEN [status |-> -1, item |-> item]
                  ELSE MountpointChildren(children, i + 1,
                           [item EXCEPT !.show = child.value], alloc_ok)
             ELSE MountpointChildren(children, i + 1, item, alloc_ok)

\* config_nfs_mountpoint_add(ci): alloc_ok is whether its allocations succeed
config_nfs_mountpoint_add(table, ci, alloc_ok) ==
    IF ci.values_num # 1 \/ ci.type # "string"
    THEN [ret |-> -1, table |-> table]
    ELSE IF c_avl_has(table, ci.value)
    THEN [ret |-> 0, table |-> table]
    ELSE IF ~alloc_ok
    THEN [ret |-> -1, table |-> table]
    ELSE LET item0 == [min_age |-> 0, perop_statistics |-> NULLTREE,
                       perop_statistics_string |-> NULL, show |-> 1]
             r == MountpointChildren(ci.children, 1, item0, alloc_ok)
         IN  IF r.status = -1
             THEN [ret |-> -1, table |-> table]
             ELSE [ret |-> 0, table |-> c_avl_insert(table, ci.value, r.item)]

\* nfs_deconfig_cb: every entry is freed and the table pointer reset
nfs_deconfig_cb(table) == NULLTREE

\* the for (ci->children) loop of nfs_config_cb, from child i on;
\* oomAt is the child whose allocations fail (0: none)
RECURSIVE ConfigChildren(_, _, _, _, _)
ConfigChildren(ci, i, table, enable, oomAt) ==
    IF i > Len(ci) THEN [ret |-> 0, table |-> table, enable |-> enable]
    ELSE LET child == ci[i]
         IN  IF child.key = "mountpoint"
             THEN LET r == config_nfs_mountpoint_add(table, child, i # oomAt)
                  IN  IF r.ret # 0
                      THEN [ret |-> -1, table |-> nfs_deconfig_cb(r.table),
                            enable |-> enable]
                      ELSE ConfigChildren(ci, i + 1, r.table, enable, oomAt)
             ELSE IF child.key = "enable_client_stats_per_mountpoint"
             THEN IF child.type # "boolean"
                  THEN [ret |-> -1, table |-> nfs_deconfig_cb(table),
                        enable |-> enable]
                  ELSE ConfigChildren(ci, i + 1, table, child.value, oomAt)
             ELSE ConfigChildren(ci, i + 1, table, enable, oomAt)

\* nfs_config_cb(ci), after its assert(config_mountpoints == NULL)
nfs_config_cb(ci, enable, oomAt) ==
    ConfigChildren(ci, 1, c_avl_create, enable, oomAt)

\* the wildcard entry is_proc_self_mountstats_available synthesizes
DefaultAllItem == [min_age |-> DEFAULT_MIN_AGE, perop_statistics |-> NULLTREE,
                   perop_statistics_string |-> NULL, show |-> 1]

\* is_proc_self_mountstats_available() without the test of the toggle
is_proc_self_mountstats_available_NoToggle(table, enable, fopen_ok, alloc_ok) ==
    IF ~fopen_ok THEN [ret |-> 1, table |-> table]
    ELSE IF ~table.alloc /\ ~alloc_ok THEN [ret |-> -1, table |-> table]
    ELSE LET t == IF table.alloc THEN table ELSE c_avl_create
         IN  IF ~c_avl_has(t, ALL)
             THEN IF ~alloc_ok
                  THEN [ret |-> -1, table |-> nfs_deconfig_cb(t)]
                  ELSE [ret |-> 0, table |-> c_avl_insert(t, ALL, DefaultAllItem)]
             ELSE [ret |-> 0, table |-> t]

\* is_proc_self_mountstats_available() without the synthesis of the wildcard
\* entry: the table is returned as the configuration left it
is_proc_self_mountstats_available_NoWildcard(table, enable, fopen_ok, alloc_ok) ==
    IF enable = 0 THEN [ret |-> 1, table |-> table]
    ELSE IF ~fopen_ok THEN [ret |-> 1, table |-> table]
    ELSE IF ~table.alloc /\ ~alloc_ok THEN [ret |-> -1, table |-> table]
    ELSE [ret |-> 0, table |-> IF table.alloc THEN table ELSE c_avl_create]

\* is_proc_self_mountstats_available(): 0 is "available"
is_proc_self_mountstats_available(table, enable, fopen_ok, alloc_ok) ==
    IF enable = 0 THEN [ret |-> 1, table |-> table]
    ELSE IF ~fopen_ok THEN [ret |-> 1, table |-> table]
    ELSE IF ~table.alloc /\ ~alloc_ok THEN [ret |-> -1, table |-> table]
    ELSE LET t == IF table.alloc THEN table ELSE c_avl_create
         IN  IF ~c_avl_has(t, ALL)
             THEN IF ~alloc_ok
                  THEN [ret |-> -1, table |-> nfs_deconfig_cb(t)]
                  ELSE [ret |-> 0, table |-> c_avl_insert(t, ALL, DefaultAllItem)]
             ELSE [ret |-> 0, table |-> t]

-----------------------------------------------------------------------------
(* Dispatcher *)

UpperCase == {"A", "B", "C", "D", "E", "F", "G", "H", "I", "J", "K", "L", "M", "N", "O", "P", "Q", "R", "S", "T", "U", "V", "W", "X", "Y", "Z"}
LowerCase == {"a", "b", "c", "d", "e", "f", "g", "h", "i", "j", "k", "l", "m", "n", "o", "p", "q", "r", "s", "t", "u", "v", "w", "x", "y", "z"}

\* size of the name fields of value_list_t (the host's plugin.h)
DATA_MAX_NAME_LEN == 64

Min(a, b) == IF a < b THEN a ELSE b

\* sstrncpy(dest, src, n): at most n-1 characters of src
sstrncpy(src, n) == Take(src, Min(Len(src), n - 1))

\* mountstats_initialize_value_list(vl, m, data_type)
mountstats_initialize_value_list(m, data_type) ==
    LET inst == sstrncpy(m.mountpoint, DATA_MAX_NAME_LEN)
    IN  [type |-> data_type,
         mountpoint |-> m.mountpoint,
         plugin_instance |->
             [i \in 1..Len(inst) |->
                 IF inst[i] \in UpperCase \cup LowerCase \cup Digits
                 THEN inst[i] ELSE "_"],
         type_instance |-> <<>>,
         values |-> <<>>]

\* policy resolution that tries the wildcard entry first
ResolvePolicy_WildcardFirst(table, m) ==
    IF c_avl_has(table, ALL)
    THEN [found |-> TRUE, item |-> table.tree[ALL]]
    ELSE IF c_avl_has(table, m.mountpoint)
    THEN [found |-> TRUE, item |-> table.tree[m.mountpoint]]
    ELSE [found |-> FALSE, item |-> <<>>]

\* the policy mountstats_submit resolves for m: the entry of m's mountpoint,
\* else the entry of "all"; found is FALSE when assert(r == 0) fails
ResolvePolicy(table, m) ==
    IF c_avl_has(table, m.mountpoint)
    THEN [found |-> TRUE, item |-> table.tree[m.mountpoint]]
    ELSE IF c_avl_has(table, ALL)
    THEN [found |-> TRUE, item |-> table.tree[ALL]]
    ELSE [found |-> FALSE, item |-> <<>>]

\* the show / min_age test with <= for <
Suppressed_AgeInclusive(item, m) ==
    item.show = 0 \/ (m.age <= item.min_age /\ item.min_age # 0)

\* the show / min_age test at the head of mountstats_submit
Suppressed(item, m) ==
    item.show = 0 \/ (m.age < item.min_age /\ item.min_age # 0)

\* the xprt sample: its type name and value count follow m.xprt_type
XprtSample(m) ==
    LET k == CASE m.xprt_type = "udp" -> NB_NFS_XPRT_UDP
               [] m.xprt_type = "tcp" -> NB_NFS_XPRT_TCP
               [] m.xprt_type = "rdma" -> NB_NFS_XPRT_RDMA
        ty == CASE m.xprt_type = "udp" -> "nfsclient_xprtudp"
                [] m.xprt_type = "tcp" -> "nfsclient_xprttcp"
                [] m.xprt_type = "rdma" -> "nfsclient_xprtrdma"
    IN  [mountstats_initialize_value_list(m, ty) EXCEPT !.values = Take(m.xprt, k)]

\* the per-op test without the lookup of the name: any set selects every name
PeropSelected_AnyName(item, name) ==
    item.perop_statistics.alloc

\* whether the per-op loop of mountstats_submit emits m.op[i]
PeropSelected(item, name) ==
    ~(~item.perop_statistics.alloc \/ ~c_avl_has(item.perop_statistics, name))

\* the per-op loop of mountstats_submit, from op i on
RECURSIVE PeropSamples(_, _, _)
PeropSamples(item, m, i) ==
    IF i > m.nb_op THEN <<>>
    ELSE IF ~PeropSelected(item, m.op[i].op_name)
    THEN PeropSamples(item, m, i + 1)
    ELSE <<[mountstats_initialize_value_list(m, "nfsclient_perop") EXCEPT
                !.type_instance = sstrncpy(m.op[i].op_name, DATA_MAX_NAME_LEN),
                !.values = m.op[i].op]>>
         \o PeropSamples(item, m, i + 1)

\* mountstats_submit(m): the samples it gives to plugin_dispatch_values, in
\* order; ok is FALSE when assert(r == 0) fails
mountstats_submit(table, m) ==
    LET p == ResolvePolicy(table, m)
    IN  IF ~p.found THEN [ok |-> FALSE, samples |-> <<>>]
        ELSE IF Suppressed(p.item, m) THEN [ok |-> TRUE, samples |-> <<>>]
        ELSE [ok |-> TRUE,
              samples |->
                <<[mountstats_initialize_value_list(m, "uptime") EXCEPT
                       !.values = <<m.age>>],
                  [mountstats_initialize_value_list(m, "nfsclient_events") EXCEPT
                       !.values = m.events],
                  [mountstats_initialize_value_list(m, "nfsclient_bytes") EXCEPT
                       !.values = m.bytes],
                  XprtSample(m)>>
                \o (IF p.item.perop_statistics_string # NULL
                       /\ p.item.perop_statistics_string # <<>>
                       /\ p.item.perop_statistics_string[1] # NUL
                    THEN PeropSamples(p.item, m, 1)
                    ELSE <<>>)]

-----------------------------------------------------------------------------
(* Mountstats parser *)

\* memset(&mountstats, 0, sizeof(mountstats)); xprt_type 0 is nfs_xprt_type_tcp
ZeroStats ==
    [mountpoint |-> NULL, age |-> 0,
     events |-> Zeros(NB_NFS_EVENT_COUNTERS), bytes |-> Zeros(NB_NFS_BYTE_COUNTERS),
     xprt_type |-> "tcp", xprt |-> Zeros(NB_NFS_XPRT_ANY),
     op |-> <<>>, nb_op |-> 0, size_op |-> 0]

\* clear_mountstats that frees the strings and leaves the counters
clear_mountstats_KeepCounters(m) ==
    [ZeroStats EXCEPT !.age = m.age, !.events = m.events, !.bytes = m.bytes,
                      !.xprt = m.xprt]

\* clear_mountstats(m): the frees, then memset(m, 0, sizeof(*m))
clear_mountstats(m) == ZeroStats

L_device == <<"d", "e", "v", "i", "c", "e">>
L_device_sp == <<"d", "e", "v", "i", "c", "e", " ">>
L_with_fstype == <<" ", "w", "i", "t", "h", " ", "f", "s", "t", "y", "p", "e", " ">>
L_mounted_on == <<" ", "m", "o", "u", "n", "t", "e", "d", " ", "o", "n", " ">>
L_nfs == <<"n", "f", "s">>
L_age == <<"a", "g", "e", ":">>
L_events == <<"e", "v", "e", "n", "t", "s", ":">>
L_bytes == <<"b", "y", "t", "e", "s", ":">>
L_xprt == <<"x", "p", "r", "t", ":">>
L_tcp == <<"t", "c", "p", " ">>
L_udp == <<"u", "d", "p", " ">>
L_rdma == <<"r", "d", "m", "a", " ">>
\* the header of the per-op section as a text every line begins with
L_perop_AnyLine == <<>>

L_perop == <<"p", "e", "r", "-", "o", "p", " ", "s", "t", "a", "t", "i", "s", "t", "i", "c", "s">>

\* sizeof of a string literal
SizeOf(lit) == Len(lit) + 1

\* the fstype test of the start case with the test of "nfs" alone
NotNfs_PrefixOnly(str) == ~HasPrefix(str, L_nfs)

\* the two "Not nfs. Skip this line" tests of the start case on the text str
\* that follows " with fstype ": strncmp(str, "nfs", 3), then str[3]
NotNfs(str) ==
    \/ ~HasPrefix(str, L_nfs)
    \/ Len(str) >= 4 /\ str[4] \notin {"\n", "2", "3", "4", " ", "\t", NUL}

\* case psm_state_start that passes over a line whose first token is not
\* "device"
CaseStart_IgnoreStray(m, wbuf, alloc_ok) ==
    LET i == ScanIdx(wbuf, 1, {" "})
        nfsdir == NEXT_NON_SPACE_CHAR(Drop(wbuf, i))
        fs == strstr(nfsdir, L_with_fstype)
        str == NEXT_NON_SPACE_CHAR(Drop(nfsdir, fs - 1 + SizeOf(L_with_fstype) - 1))
        mo == strstr(nfsdir, L_mounted_on)
        \* 1-based place in nfsdir of the first character after the marker
        from == SkipIdx(nfsdir, mo + SizeOf(L_mounted_on) - 1, Blank)
        \* nfsdir_end[0] = '\0' cuts the string only when it lies at or after from
        mp == IF fs >= from THEN SubSeq(nfsdir, from, fs - 1)
              ELSE Drop(nfsdir, from - 1)
    IN  IF Take(wbuf, i - 1) # L_device
        THEN [state |-> "start", m |-> m, outcome |-> "continue"]
        ELSE IF fs = 0
        THEN [state |-> "start", m |-> m, outcome |-> "parse_error"]
        ELSE IF NotNfs(str)
        THEN [state |-> "start", m |-> m, outcome |-> "continue"]
        ELSE IF mo = 0
        THEN [state |-> "start", m |-> m, outcome |-> "parse_error"]
        ELSE IF ~alloc_ok
        THEN [state |-> "start", m |-> m, outcome |-> "oom"]
        ELSE [state |-> "device_nfs", m |-> [m EXCEPT !.mountpoint = mp],
              outcome |-> "continue"]

\* case psm_state_start, after its assert
CaseStart(m, wbuf, alloc_ok) ==
    LET i == ScanIdx(wbuf, 1, {" "})
        nfsdir == NEXT_NON_SPACE_CHAR(Drop(wbuf, i))
        fs == strstr(nfsdir, L_with_fstype)
        str == NEXT_NON_SPACE_CHAR(Drop(nfsdir, fs - 1 + SizeOf(L_with_fstype) - 1))
        mo == strstr(nfsdir, L_mounted_on)
        \* 1-based place in nfsdir of the first character after the marker
        from == SkipIdx(nfsdir, mo + SizeOf(L_mounted_on) - 1, Blank)
        \* nfsdir_end[0] = '\0' cuts the string only when it lies at or after from
        mp == IF fs >= from THEN SubSeq(nfsdir, from, fs - 1)
              ELSE Drop(nfsdir, from - 1)
    IN  IF Take(wbuf, i - 1) # L_device
        THEN [state |-> "start", m |-> clear_mountstats(m), outcome |-> "parse_error"]
        ELSE IF fs = 0
        THEN [state |-> "start", m |-> m, outcome |-> "parse_error"]
        ELSE IF NotNfs(str)
        THEN [state |-> "start", m |-> m, outcome |-> "continue"]
        ELSE IF mo = 0
        THEN [state |-> "start", m |-> m, outcome |-> "parse_error"]
        ELSE IF ~alloc_ok
        THEN [state |-> "start", m |-> m, outcome |-> "oom"]
        ELSE [state |-> "device_nfs", m |-> [m EXCEPT !.mountpoint = mp],
              outcome |-> "continue"]

\* case psm_state_device_nfs
CaseDeviceNfs(m, wbuf) ==
    LET str == NEXT_NON_SPACE_CHAR(wbuf)
        err == [state |-> "device_nfs", m |-> m, outcome |-> "parse_error"]
        go(m2) == [state |-> "device_nfs", m |-> m2, outcome |-> "continue"]
    IN  IF HasPrefix(str, L_age)
        THEN LET s2 == NEXT_NON_SPACE_CHAR(Drop(str, SizeOf(L_age)))
                 r == strtol(s2)
             IN  IF s2 = <<>> THEN err
                 ELSE IF r.errno # "0" THEN err
                 ELSE go([m EXCEPT !.age = r.val])
        ELSE IF HasPrefix(str, L_events)
        THEN LET r == string_to_array_of_Lu(Drop(str, SizeOf(L_events)),
                                            m.events, NB_NFS_EVENT_COUNTERS)
             IN  IF r.n # NB_NFS_EVENT_COUNTERS THEN err
                 ELSE go([m EXCEPT !.events = r.a])
        ELSE IF HasPrefix(str, L_bytes)
        THEN LET r == string_to_array_of_Lu(Drop(str, SizeOf(L_bytes)),
                                            m.bytes, NB_NFS_BYTE_COUNTERS)
             IN  IF r.n # NB_NFS_BYTE_COUNTERS THEN err
                 ELSE go([m EXCEPT !.bytes = r.a])
        ELSE IF HasPrefix(str, L_xprt)
        THEN LET s2 == NEXT_NON_SPACE_CHAR(Drop(str, SizeOf(L_xprt)))
                 kind == IF HasPrefix(s2, L_tcp) THEN "tcp"
                         ELSE IF HasPrefix(s2, L_udp) THEN "udp"
                         ELSE IF HasPrefix(s2, L_rdma) THEN "rdma"
                         ELSE "none"
                 lit == CASE kind = "tcp" -> L_tcp [] kind = "udp" -> L_udp
                          [] kind = "rdma" -> L_rdma [] OTHER -> <<>>
                 want == CASE kind = "tcp" -> NB_NFS_XPRT_TCP
                           [] kind = "udp" -> NB_NFS_XPRT_UDP
                           [] kind = "rdma" -> NB_NFS_XPRT_RDMA [] OTHER -> 0
                 r == string_to_array_of_Lu(Drop(s2, SizeOf(lit) - 1), m.xprt, want)
                 n == IF kind = "none" THEN -1 ELSE r.n - want
             IN  IF n # 0 THEN err
                 ELSE go([m EXCEPT !.xprt = r.a, !.xprt_type = kind])
        ELSE IF HasPrefix(str, L_perop)
        THEN [state |-> "device_nfs_per_opt_stats", m |-> m, outcome |-> "continue"]
        ELSE go(m)

\* the test of the array with the comparison off by one
NeedsGrow_OffByOne(m) == m.nb_op > m.size_op

\* whether a per-op line finds the operations array full
NeedsGrow(m) == m.nb_op >= m.size_op

\* case psm_state_device_nfs_per_opt_stats; tail is what the buffer holds
\* after the terminator of this line
CasePerOp(m, wbuf, tail, alloc_ok) ==
    LET str == NEXT_NON_SPACE_CHAR(wbuf)
        i == ScanIdx(str, 1, {":"}) - 1
        grow == NeedsGrow(m)
        size2 == IF grow THEN m.size_op + OP_CHUNK ELSE m.size_op
        name == sstrncpy(str, IF i + 1 > OP_NAME_SIZE THEN OP_NAME_SIZE ELSE i + 1)
        rest == IF i < Len(str) THEN Drop(str, i + 1) ELSE tail
        r == string_to_array_of_Lu(rest, Zeros(NB_OP_METRICS), NB_OP_METRICS)
    IN  IF str = <<>> \/ str[1] = "\n"
        THEN [state |-> "device_nfs_per_opt_stats", m |-> m, outcome |-> "continue"]
        ELSE IF grow /\ ~alloc_ok
        THEN [state |-> "device_nfs_per_opt_stats", m |-> clear_mountstats(m),
              outcome |-> "oom"]
        ELSE IF r.n # NB_OP_METRICS
        THEN [state |-> "device_nfs_per_opt_stats",
              m |-> [m EXCEPT !.size_op = size2], outcome |-> "parse_error"]
        ELSE [state |-> "device_nfs_per_opt_stats",
              m |-> [m EXCEPT !.size_op = size2,
                              !.op = Append(m.op, [op_name |-> name, op |-> r.a]),
                              !.nb_op = m.nb_op + 1],
              outcome |-> "continue"]

\* dispatch_mountstats without its test of m->mountpoint
dispatch_mountstats_NoGuard(table, m) ==
    [ok |-> mountstats_submit(table, m).ok, calls |-> <<m>>,
     samples |-> mountstats_submit(table, m).samples]

\* dispatch_mountstats(m): the calls of mountstats_submit it makes
dispatch_mountstats(table, m) ==
    IF m.mountpoint = NULL
    THEN [ok |-> TRUE, calls |-> <<>>, samples |-> <<>>]
    ELSE LET r == mountstats_submit(table, m)
         IN  [ok |-> r.ok, calls |-> <<m>>, samples |-> r.samples]

\* whether the head of the loop takes the line for a device line
IsDeviceLine(buf) == buf # <<>> /\ buf[1] = "d" /\ HasPrefix(buf, L_device_sp)

\* the switch(state) of one iteration: the assert of the start case, the case
\* of the state, and the clear_mountstats of an_error_happened
SwitchResult(c) ==
    [state |-> c.state,
     m |-> IF c.outcome = "parse_error" THEN clear_mountstats(c.m) ELSE c.m,
     outcome |-> c.outcome]

SwitchState(st, m, buf, tail, alloc_ok) ==
    IF st = "start" /\ m.mountpoint # NULL
    THEN [state |-> st, m |-> m, outcome |-> "assert_start"]
    ELSE SwitchResult(
             CASE st = "start" -> CaseStart(m, buf, alloc_ok)
               [] st = "device_nfs" -> CaseDeviceNfs(m, buf)
               [] st = "device_nfs_per_opt_stats" -> CasePerOp(m, buf, tail, alloc_ok))

\* the result c of the switch with the dispatcher calls made before it
WithCalls(c, calls, samples) ==
    [state |-> c.state, m |-> c.m, outcome |-> c.outcome,
     calls |-> calls, samples |-> samples]

\* the device boundary without the reset of the state to psm_state_start
DeviceBoundary_KeepState(d, st, m, buf, alloc_ok) ==
    IF ~d.ok
    THEN [state |-> st, m |-> m, outcome |-> "assert_r",
          calls |-> d.calls, samples |-> <<>>]
    ELSE WithCalls(SwitchState(st, clear_mountstats(m), buf, <<>>, alloc_ok),
                   d.calls, d.samples)

\* the device boundary without the clear_mountstats of the dispatched record
DeviceBoundary_NoClear(d, st, m, buf, alloc_ok) ==
    IF ~d.ok
    THEN [state |-> st, m |-> m, outcome |-> "assert_r",
          calls |-> d.calls, samples |-> <<>>]
    ELSE WithCalls(SwitchState("start", m, buf, <<>>, alloc_ok), d.calls, d.samples)

\* a device line met with a record in progress: the record was dispatched with
\* result d; it is cleared and the state reset before the switch
DeviceBoundary(d, st, m, buf, alloc_ok) ==
    IF ~d.ok
    THEN [state |-> st, m |-> m, outcome |-> "assert_r",
          calls |-> d.calls, samples |-> <<>>]
    ELSE WithCalls(SwitchState("start", clear_mountstats(m), buf, <<>>, alloc_ok),
                   d.calls, d.samples)

\* one iteration of the while(fgets(...)) loop of parse_proc_self_mountstats.
\* outcome: "continue", or how the pass ends: "parse_error" (an_error_happened,
\* the record cleared), "oom", "assert_r", "assert_start"
LoopBody(table, st, m, buf, tail, alloc_ok) ==
    IF IsDeviceLine(buf)
    THEN IF m.mountpoint # NULL
         THEN DeviceBoundary(dispatch_mountstats(table, m), st, m, buf, alloc_ok)
         ELSE WithCalls(SwitchState("start", m, buf, tail, alloc_ok), <<>>, <<>>)
    ELSE WithCalls(SwitchState(st, m, buf, tail, alloc_ok), <<>>, <<>>)

-----------------------------------------------------------------------------
(* Inputs: lines of /proc/self/mountstats, as fgets returns them *)

DigitChar(d) == <<"0", "1", "2", "3", "4", "5", "6", "7", "8", "9">>[d + 1]

RECURSIVE Dec(_)
Dec(n) == IF n < 10 THEN <<DigitChar(n)>> ELSE Dec(n \div 10) \o <<DigitChar(n % 10)>>

\* "lo lo+1 ... hi", separated by single spaces
RECURSIVE IntsText(_, _)
IntsText(lo, hi) ==
    IF lo > hi THEN <<>>
    ELSE IF lo = hi THEN Dec(lo)
    ELSE Dec(lo) \o <<" ">> \o IntsText(lo + 1, hi)

S_data == <<"/", "d", "a", "t", "a">>
S_home == <<"/", "h", "o", "m", "e">>

LineText(id) ==
    CASE id = "dev_data" -> <<"d", "e", "v", "i", "c", "e", " ", "s", "r", "v", ":", "/", "x", " ", "m", "o", "u", "n", "t", "e", "d", " ", "o", "n", " ", "/", "d", "a", "t", "a", " ", "w", "i", "t", "h", " ", "f", "s", "t", "y", "p", "e", " ", "n", "f", "s", "4", " ", "s", "t", "a", "t", "v", "e", "r", "s", "=", "1", ".", "1", "\n">>
      [] id = "dev_home" -> <<"d", "e", "v", "i", "c", "e", " ", "s", "r", "v", ":", "/", "h", " ", "m", "o", "u", "n", "t", "e", "d", " ", "o", "n", " ", "/", "h", "o", "m", "e", " ", "w", "i", "t", "h", " ", "f", "s", "t", "y", "p", "e", " ", "n", "f", "s", " ", "s", "t", "a", "t", "v", "e", "r", "s", "=", "1", ".", "1", "\n">>
      [] id = "dev_ext4" -> <<"d", "e", "v", "i", "c", "e", " ", "/", "d", "e", "v", "/", "s", "d", "a", "1", " ", "m", "o", "u", "n", "t", "e", "d", " ", "o", "n", " ", "/", " ", "w", "i", "t", "h", " ", "f", "s", "t", "y", "p", "e", " ", "e", "x", "t", "4", "\n">>
      [] id = "dev_nofs" -> <<"d", "e", "v", "i", "c", "e", " ", "s", "r", "v", ":", "/", "x", " ", "m", "o", "u", "n", "t", "e", "d", " ", "o", "n", " ", "/", "d", "a", "t", "a", "\n">>
      [] id = "dev_nomnt" -> <<"d", "e", "v", "i", "c", "e", " ", "s", "r", "v", ":", "/", "x", " ", "w", "i", "t", "h", " ", "f", "s", "t", "y", "p", "e", " ", "n", "f", "s", "\n">>
      [] id = "dev_trail" -> L_device_sp \o <<"s", "r", "v", ":", "/", "x">> \o L_with_fstype \o L_nfs \o L_mounted_on
      [] id = "opts" -> <<"\t", "o", "p", "t", "s", ":", "\t", "r", "w", ",", "v", "e", "r", "s", "=", "4", "\n">>
      [] id = "age_7200" -> <<"\t", "a", "g", "e", ":", "\t">> \o Dec(7200) \o <<"\n">>
      [] id = "age_1800" -> <<"\t", "a", "g", "e", ":", "\t">> \o Dec(1800) \o <<"\n">>
      [] id = "events_ok" -> <<"\t", "e", "v", "e", "n", "t", "s", ":", "\t">> \o IntsText(1, NB_NFS_EVENT_COUNTERS) \o <<"\n">>
      [] id = "events_bad" -> <<"\t", "e", "v", "e", "n", "t", "s", ":", "\t">> \o <<"1", " ", "x", " ", "3", "\n">>
      [] id = "events_short" -> <<"\t", "e", "v", "e", "n", "t", "s", ":", "\t">> \o IntsText(1, 3) \o <<"\n">>
      [] id = "bytes_ok" -> <<"\t", "b", "y", "t", "e", "s", ":", "\t">> \o IntsText(1, NB_NFS_BYTE_COUNTERS) \o <<"\n">>
      [] id = "xprt_udp" -> <<"\t", "x", "p", "r", "t", ":", "\t">> \o L_udp \o IntsText(1, NB_NFS_XPRT_UDP) \o <<"\n">>
      [] id = "xprt_tcp" -> <<"\t", "x", "p", "r", "t", ":", "\t">> \o L_tcp \o IntsText(1, NB_NFS_XPRT_TCP) \o <<"\n">>
      [] id = "xprt_bad" -> <<"\t", "x", "p", "r", "t", ":", "\t">> \o <<"s", "c", "t", "p", " ", "1", " ", "2", " ", "3", "\n">>
      [] id = "perop" -> <<"\t">> \o L_perop \o <<"\n">>
      [] id = "op_read" -> <<"\t", " ", " ", " ", " ", " ", " ", " ", " ", "R", "E", "A", "D", ":", " ">> \o IntsText(1, NB_OP_METRICS) \o <<"\n">>
      [] id = "op_write" -> <<"\t", " ", " ", " ", " ", " ", " ", " ", "W", "R", "I", "T", "E", ":", " ">> \o IntsText(11, 10 + NB_OP_METRICS) \o <<"\n">>
      [] id = "op_short" -> <<"\t", " ", " ", " ", " ", " ", " ", " ", " ", "R", "E", "A", "D", ":", " ">> \o IntsText(1, 3) \o <<"\n">>
      [] id = "op_nocolon" -> <<"\t", " ", " ", " ", " ", " ", " ", " ", " ", "R", "E", "A", "D", "\n">>
      [] id = "blank" -> <<"\n">>


\* what buf[] holds after fgets stored the lines ids[k..] over the bytes b:
\* each line and its terminator overwrite the head, the rest stays
RECURSIVE BufAfter(_, _, _)
BufAfter(ids, k, b) ==
    IF k > Len(ids) THEN b
    ELSE LET line == LineText(ids[k])
         IN  BufAfter(ids, k + 1, line \o <<NUL>> \o Drop(b, Len(line) + 1))

\* bytes of the never initialised part of buf[], as the pass may find them
UninitBytes == {<<NUL>>, IntsText(1, NB_OP_METRICS) \o <<NUL>>}

\* what follows the terminator of line id in wbuf, given the lines read before
\* and the bytes junk of the part of the buffer no line has reached yet
TailOf(before, id, junk) ==
    Drop(BufAfter(before, 1, <<>>), Len(LineText(id)) + 1) \o junk

\* whether the loop body reads past the terminator of the line: a per-op line
\* that is not blank and holds no ':'
ReadsPastTerminator(st, buf) ==
    /\ st = "device_nfs_per_opt_stats"
    /\ ~IsDeviceLine(buf)
    /\ LET str == NEXT_NON_SPACE_CHAR(buf)
       IN  str # <<>> /\ str[1] # "\n" /\ ScanIdx(str, 1, {":"}) > Len(str)

-----------------------------------------------------------------------------
(* Inputs: configuration trees *)

Child(key, type, value) ==
    [key |-> key, type |-> type, value |-> value, values_num |-> 1, children |-> <<>>]

Mountpoint(name, children) ==
    [key |-> "mountpoint", type |-> "string", value |-> name, values_num |-> 1,
     children |-> children]

Enable(b) == Child("enable_client_stats_per_mountpoint", "boolean", b)

S_read_write == <<"r", "e", "a", "d", ",", " ", "w", "r", "i", "t", "e">>
S_abc == <<"a", "b", "c">>

ConfigTree(id) ==
    CASE id = "empty" -> <<>>
      [] id = "enable" -> <<Enable(1)>>
      [] id = "disable_data" -> <<Mountpoint(S_data, <<Child("show", "boolean", 0)>>)>>
      [] id = "off_data" -> <<Enable(0), Mountpoint(S_data, <<>>)>>
      [] id = "hide_data" ->
            <<Enable(1),
              Mountpoint(S_data, <<Child("show", "boolean", 0)>>),
              Mountpoint(ALL, <<Child("show", "boolean", 1),
                                Child("perop_statistics", "string", ALL)>>)>>
      [] id = "subset" ->
            <<Enable(1),
              Mountpoint(S_data, <<Child("min_age", "number", 3600),
                                   Child("perop_statistics", "string", S_read_write)>>),
              Mountpoint(S_data, <<Child("show", "boolean", 0)>>)>>
      [] id = "subset_all" ->
            <<Enable(1),
              Mountpoint(ALL, <<Child("perop_statistics", "string", S_read_write),
                                Child("min_age", "number", 0)>>),
              Mountpoint(S_home, <<Child("perop_statistics", "string", <<>>),
                                   Child("min_age", "number", 1800)>>)>>
      [] id = "bad_min_age" ->
            <<Enable(1),
              Mountpoint(S_data, <<Child("min_age", "string", S_abc)>>)>>
      [] id = "bad_enable" ->
            <<Mountpoint(S_home, <<>>),
              Child("enable_client_stats_per_mountpoint", "string", S_abc)>>
      [] id = "bad_show" ->
            <<Mountpoint(ALL, <<Child("show", "number", 1)>>), Enable(1)>>

ConfigIds == {"empty", "enable", "disable_data", "off_data", "hide_data", "subset", "subset_all",
              "bad_min_age", "bad_enable", "bad_show"}

\* the trees that hold a malformed value
MalformedConfigIds == {"bad_min_age", "bad_enable", "bad_show"}

-----------------------------------------------------------------------------
(* The plugin: nfs_config_cb, nfs_init, nfs_read *)

NoTrace == [ci |-> "none", ret |-> 0, oom |-> FALSE, inited |-> FALSE]

\* no line is given: the lines come from fgets
NoLine == [label |-> "none", toks |-> <<>>]

Init ==
    /\ config_mountpoints = NULLTREE
    /\ enable_client_stats_per_mountpoint = 0
    /\ proc_self_mountstats_is_available = 0
    /\ pc = "idle"
    /\ state = "start"
    /\ mountstats = ZeroStats
    /\ consumed = <<>>
    /\ submitted = <<>>
    /\ emitted = <<>>
    /\ result = "none"
    /\ cfgtrace = NoTrace
    /\ curline = NoLine
    /\ failed = {}

\* nfs_config_cb(ci): the host calls it with one <Plugin nfs> block
NfsConfig ==
    /\ pc = "idle"
    /\ \E id \in ConfigIds, oomAt \in 0..3 :
        /\ oomAt <= Len(ConfigTree(id))
        /\ IF config_mountpoints.alloc
           THEN \* assert(config_mountpoints == NULL) fails
                /\ pc' = "aborted"
                /\ result' = "assert_config"
                /\ UNCHANGED <<config_mountpoints, enable_client_stats_per_mountpoint,
                               cfgtrace>>
           ELSE LET r == nfs_config_cb(ConfigTree(id),
                                       enable_client_stats_per_mountpoint, oomAt)
                IN  /\ config_mountpoints' = r.table
                    /\ enable_client_stats_per_mountpoint' = r.enable
                    /\ cfgtrace' = [ci |-> id, ret |-> r.ret, oom |-> oomAt # 0,
                                    inited |-> FALSE]
                    /\ result' = "config"
                    /\ pc' = "idle"
    /\ UNCHANGED <<proc_self_mountstats_is_available, state, mountstats,
                   consumed, submitted, emitted, curline, failed>>

\* nfs_init()
NfsInit ==
    /\ pc = "idle"
    /\ \E fopen_ok \in BOOLEAN, alloc_ok \in BOOLEAN :
        LET r == is_proc_self_mountstats_available(
                     config_mountpoints, enable_client_stats_per_mountpoint,
                     fopen_ok, alloc_ok)
        IN  /\ config_mountpoints' = r.table
            /\ proc_self_mountstats_is_available' = IF r.ret = 0 THEN 1 ELSE 0
    /\ cfgtrace' = [cfgtrace EXCEPT !.inited = TRUE]
    /\ result' = "init"
    /\ UNCHANGED <<enable_client_stats_per_mountpoint, pc, state, mountstats,
                   consumed, submitted, emitted, curline, failed>>

\* nfs_read(), up to the first fgets of parse_proc_self_mountstats.  The two
\* /proc/net/rpc readers before it share no state with the mountstats path.
NfsRead ==
    /\ pc = "idle"
    /\ \E fopen_ok \in BOOLEAN :
        IF proc_self_mountstats_is_available # 0 /\ config_mountpoints.alloc
        THEN IF fopen_ok
             THEN /\ pc' = "parsing"
                  /\ result' = "running"
             ELSE /\ pc' = "idle"
                  /\ result' = "open_failed"
        ELSE /\ pc' = "idle"
             /\ result' = "skipped"
    /\ state' = "start"
    /\ mountstats' = ZeroStats
    /\ consumed' = <<>>
    /\ submitted' = <<>>
    /\ emitted' = <<>>
    /\ UNCHANGED <<config_mountpoints, enable_client_stats_per_mountpoint,
                   proc_self_mountstats_is_available, cfgtrace, curline, failed>>

\* the assignments of one iteration with result r on line id
ParseLineApply(r, id) ==
    /\ state' = r.state
    /\ mountstats' = r.m
    /\ submitted' = submitted \o r.calls
    /\ emitted' = emitted \o r.samples
    /\ consumed' = Append(consumed, id)
    /\ result' = IF r.outcome = "continue" THEN "running" ELSE r.outcome
    /\ pc' = IF r.outcome = "continue" THEN "parsing"
             ELSE IF r.outcome \in {"assert_r", "assert_start"} THEN "aborted"
             ELSE "idle"

\* whether the loop body may allocate on this line: the strdup of a device
\* line, the realloc of a per-op line met with the array full
Allocates(st, m, buf) ==
    IsDeviceLine(buf) \/ (st = "device_nfs_per_opt_stats" /\ m.nb_op >= m.size_op)

\* fgets returns a line short of sizeof(buf) without its newline only when the
\* file ends there: no line follows such a line
MoreLines(ids) ==
    IF ids = <<>> THEN TRUE
    ELSE LET buf == LineText(ids[Len(ids)]) IN buf[Len(buf)] = "\n"

\* fgets returns a line of Alphabet: one iteration of the loop
ParseLine(Alphabet, maxn) ==
    /\ pc = "parsing"
    /\ Len(consumed) < maxn
    /\ MoreLines(consumed)
    /\ \E id \in Alphabet, alloc_ok \in BOOLEAN, junk \in UninitBytes :
        /\ (~alloc_ok => Allocates(state, mountstats, LineText(id)))
        /\ (junk # <<NUL>> => ReadsPastTerminator(state, LineText(id)))
        /\ ParseLineApply(LoopBody(config_mountpoints, state, mountstats, LineText(id),
                                   TailOf(consumed, id, junk), alloc_ok), id)
    /\ UNCHANGED <<config_mountpoints, enable_client_stats_per_mountpoint,
                   proc_self_mountstats_is_available, cfgtrace, curline, failed>>

\* fgets returns NULL at end of file: the last record is dispatched and cleared
ParseEOF ==
    /\ pc = "parsing"
    /\ LET d == dispatch_mountstats(config_mountpoints, mountstats)
       IN  /\ submitted' = submitted \o d.calls
           /\ emitted' = emitted \o d.samples
           /\ IF d.ok
              THEN /\ mountstats' = clear_mountstats(mountstats)
                   /\ pc' = "idle"
                   /\ result' = "ok"
              ELSE /\ mountstats' = mountstats
                   /\ pc' = "aborted"
                   /\ result' = "assert_r"
    /\ UNCHANGED <<config_mountpoints, enable_client_stats_per_mountpoint,
                   proc_self_mountstats_is_available, state, consumed, cfgtrace, curline, failed>>

\* fgets returns NULL on a read error: the pass returns -1
ParseReadFail ==
    /\ pc = "parsing"
    /\ pc' = "idle"
    /\ result' = "read_failed"
    /\ UNCHANGED <<config_mountpoints, enable_client_stats_per_mountpoint,
                   proc_self_mountstats_is_available, state, mountstats,
                   consumed, submitted, emitted, cfgtrace, curline, failed>>

LifeLines == {"dev_data", "dev_home", "age_7200"}

Next ==
    \/ NfsConfig
    \/ NfsInit
    \/ NfsRead
    \/ ParseLine(LifeLines, MaxLinesLife)
    \/ ParseEOF
    \/ ParseReadFail

Spec == Init /\ [][Next]_vars

-----------------------------------------------------------------------------
(* The parser alone: read cycles of a plugin that was configured and
   initialised with /proc/self/mountstats available *)

ParseConfigIds == {"enable", "hide_data"}

\* config_mountpoints after nfs_config_cb(tree) and a successful nfs_init
TableAfterInit(id) ==
    is_proc_self_mountstats_available(
        nfs_config_cb(ConfigTree(id), 0, 0).table, 1, TRUE, TRUE).table

InitParse ==
    /\ \E id \in ParseConfigIds :
        /\ config_mountpoints = TableAfterInit(id)
        /\ cfgtrace = [ci |-> id, ret |-> 0, oom |-> FALSE, inited |-> TRUE]
    /\ enable_client_stats_per_mountpoint = 1
    /\ proc_self_mountstats_is_available = 1
    /\ pc = "idle"
    /\ state = "start"
    /\ mountstats = ZeroStats
    /\ consumed = <<>>
    /\ submitted = <<>>
    /\ emitted = <<>>
    /\ result = "init"
    /\ curline = NoLine
    /\ failed = {}

ParseLines == {"dev_data", "dev_home", "dev_ext4", "dev_nofs", "dev_trail", "opts", "age_7200",
               "events_bad", "perop", "op_read", "op_write", "op_short", "op_nocolon",
               "blank"}

NextParse ==
    \/ NfsRead
    \/ ParseLine(ParseLines, MaxLines)
    \/ ParseEOF
    \/ ParseReadFail

SpecParse == InitParse /\ [][NextParse]_vars

\* the parser on well-formed lines alone: blocks with and without each of
\* their lines, one after another
BlockLines == {"dev_data", "dev_home", "age_7200", "events_ok", "bytes_ok",
               "xprt_udp", "perop", "op_read"}

NextBlocks ==
    \/ NfsRead
    \/ ParseLine(BlockLines, MaxLines)
    \/ ParseEOF
    \/ ParseReadFail

SpecBlocks == InitParse /\ [][NextBlocks]_vars

-----------------------------------------------------------------------------
(* The dispatcher alone: dispatch_mountstats applied to one record under one
   filter table *)

\* operations a record holds at most (dispatcher specification)
MaxOps == 3

S_read == <<"r", "e", "a", "d">>
S_write == <<"w", "r", "i", "t", "e">>
S_lookup == <<"l", "o", "o", "k", "u", "p">>

OpNames == {S_read, S_write, S_lookup}

\* the sequences over set of length n
RECURSIVE SeqsOfLen(_, _)
SeqsOfLen(set, n) ==
    IF n = 0 THEN {<<>>}
    ELSE {Append(q, x) : q \in SeqsOfLen(set, n - 1), x \in set}

OpStat(name) == [op_name |-> name, op |-> [j \in 1..NB_OP_METRICS |-> Len(name) + j]]

\* a record as the parser leaves it at a record boundary
RecordOf(mp, age, kind, names) ==
    [ZeroStats EXCEPT !.mountpoint = mp, !.age = age, !.xprt_type = kind,
                      !.op = [i \in 1..Len(names) |-> OpStat(names[i])],
                      !.nb_op = Len(names), !.size_op = OP_CHUNK]

SubmitConfigIds == {"enable", "hide_data", "subset", "subset_all"}

InitSubmit ==
    /\ \E id \in SubmitConfigIds :
        /\ config_mountpoints = TableAfterInit(id)
        /\ cfgtrace = [ci |-> id, ret |-> 0, oom |-> FALSE, inited |-> TRUE]
    /\ \E mp \in {S_data, S_home}, age \in {0, 1800, 3600, 7200},
          kind \in {"tcp", "udp"}, n \in 0..MaxOps :
        \E names \in SeqsOfLen(OpNames, n) :
            mountstats = RecordOf(mp, age, kind, names)
    /\ enable_client_stats_per_mountpoint = 1
    /\ proc_self_mountstats_is_available = 1
    /\ pc = "boundary"
    /\ state = "device_nfs_per_opt_stats"
    /\ consumed = <<>>
    /\ submitted = <<>>
    /\ emitted = <<>>
    /\ result = "running"
    /\ curline = NoLine
    /\ failed = {}

\* the least of a set of numbers that is not empty
Least(set) == CHOOSE i \in set : \A j \in set : i <= j

\* mountstats_submit leaving at the first call of plugin_dispatch_values that
\* returns an error
Emissions_StopAtFailure(samples, errs) ==
    IF errs \cap (1..Len(samples)) = {} THEN samples
    ELSE Take(samples, Least(errs \cap (1..Len(samples))))

\* the samples plugin_dispatch_values receives when mountstats_submit goes
\* through the calls samples and those at the places errs return an error: the
\* return value of none of the calls is looked at
Emissions(samples, errs) == samples

\* the places of the calls of plugin_dispatch_values that may fail in one
\* dispatch: none, any one of them, all of them
MaxCalls == 4 + MaxOps
FailSets == {{}} \cup {{i} : i \in 1..MaxCalls} \cup {1..MaxCalls}

\* the assignments of a dispatch with result d, the calls of
\* plugin_dispatch_values at the places errs returning an error
DispatchApply(d, errs) ==
    /\ errs \subseteq 1..Len(d.samples) \/ errs = 1..MaxCalls
    /\ submitted' = d.calls
    /\ emitted' = Emissions(d.samples, errs)
    /\ failed' = errs
    /\ pc' = IF d.ok THEN "dispatched" ELSE "aborted"
    /\ result' = IF d.ok THEN "running" ELSE "assert_r"

\* dispatch_mountstats(&mountstats) at a record boundary
Dispatch ==
    /\ pc = "boundary"
    /\ \E errs \in FailSets :
           DispatchApply(dispatch_mountstats(config_mountpoints, mountstats), errs)
    /\ UNCHANGED <<config_mountpoints, enable_client_stats_per_mountpoint,
                   proc_self_mountstats_is_available, state, mountstats,
                   consumed, cfgtrace, curline>>

NextSubmit == Dispatch

SpecSubmit == InitSubmit /\ [][NextSubmit]_vars

-----------------------------------------------------------------------------
(* One iteration of the parse loop alone: LoopBody applied to one line in one
   parser state *)

\* a token of a line: a number, or text that is no unsigned number
Tok(t, v) == [t |-> t, v |-> v]
Num(v) == Tok("num", v)

TokText(tok) ==
    CASE tok.t = "num" -> Dec(tok.v)
      [] tok.t = "neg" -> <<"-">> \o Dec(tok.v)
      [] tok.t = "plus" -> <<"+">> \o Dec(tok.v)
      [] tok.t = "x" -> <<"x">>
      [] tok.t = "max" -> Dec(ULLONG_MAX)
      [] tok.t = "ovf" -> Dec(ULLONG_MAX + 1)

\* the tokens from the k-th on, separated by single spaces
RECURSIVE JoinToks(_, _)
JoinToks(toks, k) ==
    IF k > Len(toks) THEN <<>>
    ELSE IF k = Len(toks) THEN TokText(toks[k])
    ELSE TokText(toks[k]) \o <<" ">> \o JoinToks(toks, k + 1)

\* how a line of each label begins
LabelText(label) ==
    CASE label = "age" -> <<"\t">> \o L_age \o <<"\t">>
      [] label = "events" -> <<"\t">> \o L_events \o <<"\t">>
      [] label = "bytes" -> <<"\t">> \o L_bytes \o <<"\t">>
      [] label = "xprt_tcp" -> <<"\t">> \o L_xprt \o <<"\t">> \o L_tcp
      [] label = "xprt_udp" -> <<"\t">> \o L_xprt \o <<"\t">> \o L_udp
      [] label = "xprt_rdma" -> <<"\t">> \o L_xprt \o <<"\t">> \o L_rdma
      [] label = "xprt_sctp" -> <<"\t">> \o L_xprt \o <<"\t", "s", "c", "t", "p", " ">>
      [] label = "op_READ" -> <<"\t", " ", "R", "E", "A", "D", ":", " ">>
      [] label = "op_WRITE" -> <<"\t", "W", "R", "I", "T", "E", ":", " ">>

\* the fstype names tried on device lines
FsText(fs) ==
    CASE fs = "nfs" -> L_nfs
      [] fs = "nfs2" -> L_nfs \o <<"2">>
      [] fs = "nfs3" -> L_nfs \o <<"3">>
      [] fs = "nfs4" -> L_nfs \o <<"4">>
      [] fs = "nfs41" -> L_nfs \o <<"4", "1">>
      [] fs = "nfs5" -> L_nfs \o <<"5">>
      [] fs = "nfsd" -> L_nfs \o <<"d">>
      [] fs = "ext4" -> <<"e", "x", "t", "4">>
      [] fs = "fuse.nfs" -> <<"f", "u", "s", "e", ".">> \o L_nfs

FsTypes == {"nfs", "nfs2", "nfs3", "nfs4", "nfs41", "nfs5", "nfsd", "ext4", "fuse.nfs"}

S_statvers == <<" ", "s", "t", "a", "t", "v", "e", "r", "s", "=", "1", ".", "1">>

\* "device srv:/x mounted on /data with fstype <fs>", followed by the
\* statvers field when opt = 1
DeviceText(fs, opt) ==
    L_device_sp \o <<"s", "r", "v", ":", "/", "x">> \o L_mounted_on \o S_data
        \o L_with_fstype \o FsText(fs) \o (IF opt = 1 THEN S_statvers ELSE <<>>)

\* the mount paths tried on device lines
PathText(path) ==
    CASE path = "data" -> S_data
      [] path = "home" -> S_home
      [] path = "root" -> <<"/">>
      [] path = "spaced" -> <<"/", "m", "y", " ", "d", "i", "r">>
      [] path = "empty" -> <<>>

\* "device srv:/x mounted on <path> with fstype nfs4 statvers=1.1"
DevicePathText(path) ==
    L_device_sp \o <<"s", "r", "v", ":", "/", "x">> \o L_mounted_on \o PathText(path)
        \o L_with_fstype \o FsText("nfs4") \o S_statvers

\* the line fgets returns for descriptor d
LineOf(d) ==
    IF d.label = "device"
    THEN DeviceText(d.toks[1].t, d.toks[1].v) \o <<"\n">>
    ELSE IF d.label = "device_path"
    THEN DevicePathText(d.toks[1].t) \o <<"\n">>
    ELSE LabelText(d.label) \o JoinToks(d.toks, 1) \o <<"\n">>

\* the numbers lo, lo+1, ... as n tokens
Nums(lo, n) == [i \in 1..n |-> Num(lo + i - 1)]

\* a mountstats_t in progress, as an earlier line of the block may leave it
InProgress(st) ==
    IF st = "start" THEN {ZeroStats}
    ELSE IF st = "device_nfs"
    THEN {[ZeroStats EXCEPT !.mountpoint = S_data],
          [ZeroStats EXCEPT !.mountpoint = S_data, !.age = 5, !.xprt_type = "udp",
                            !.xprt = [i \in 1..NB_NFS_XPRT_ANY |-> 100 + i],
                            !.events = [i \in 1..NB_NFS_EVENT_COUNTERS |-> 200 + i],
                            !.bytes = [i \in 1..NB_NFS_BYTE_COUNTERS |-> 300 + i]]}
    ELSE {[ZeroStats EXCEPT !.mountpoint = S_data],
          [ZeroStats EXCEPT !.mountpoint = S_data, !.age = 5, !.size_op = OP_CHUNK,
                            !.nb_op = 1,
                            !.op = <<[op_name |-> <<"R", "E", "A", "D">>,
                                      op |-> [j \in 1..NB_OP_METRICS |-> 400 + j]]>>],
          \* the array full: OP_CHUNK operations met
          [ZeroStats EXCEPT !.mountpoint = S_data, !.size_op = OP_CHUNK,
                            !.nb_op = OP_CHUNK,
                            !.op = [i \in 1..OP_CHUNK |->
                                      [op_name |-> <<"R", "E", "A", "D">>,
                                       op |-> [j \in 1..NB_OP_METRICS |-> i + j]]]]}

\* the assignments of the iteration with result r
IterateApply(r) ==
    /\ state' = r.state
    /\ mountstats' = r.m
    /\ submitted' = submitted \o r.calls
    /\ emitted' = emitted \o r.samples
    /\ result' = IF r.outcome = "continue" THEN "running" ELSE r.outcome
    /\ pc' = IF r.outcome = "continue" THEN "iterated"
             ELSE IF r.outcome \in {"assert_r", "assert_start"} THEN "aborted"
             ELSE "idle"

\* one iteration of the loop on the line curline describes
Iterate ==
    /\ pc = "line"
    /\ \E alloc_ok \in BOOLEAN, junk \in UninitBytes :
        /\ (~alloc_ok => Allocates(state, mountstats, LineOf(curline)))
        /\ (junk # <<NUL>> => ReadsPastTerminator(state, LineOf(curline)))
        /\ IterateApply(LoopBody(config_mountpoints, state, mountstats,
                                 LineOf(curline), junk, alloc_ok))
    /\ UNCHANGED <<config_mountpoints, enable_client_stats_per_mountpoint,
                   proc_self_mountstats_is_available, consumed, cfgtrace, curline, failed>>

\* the count of numbers the code asks of a line of each label
Need(label) ==
    CASE label = "events" -> NB_NFS_EVENT_COUNTERS
      [] label = "bytes" -> NB_NFS_BYTE_COUNTERS
      [] label = "xprt_tcp" -> NB_NFS_XPRT_TCP
      [] label = "xprt_udp" -> NB_NFS_XPRT_UDP
      [] label = "xprt_rdma" -> NB_NFS_XPRT_RDMA
      [] label = "op_READ" -> NB_OP_METRICS
      [] label = "op_WRITE" -> NB_OP_METRICS

NumLabels == {"events", "bytes", "xprt_tcp", "xprt_udp", "xprt_rdma", "xprt_sctp",
              "op_READ", "op_WRITE"}

\* the counts of numbers tried on each line: each needed count, one less, one more
Counts == {0} \cup UNION {{Need(l) - 1, Need(l), Need(l) + 1} :
                              l \in NumLabels \ {"xprt_sctp"}}

OddToks == {Tok("x", 0), Tok("neg", 5), Tok("plus", 7), Tok("ovf", 0), Tok("max", 0)}

\* lines of numbers only
CountLines == {[label |-> l, toks |-> Nums(1, c)] : l \in NumLabels, c \in Counts}

\* lines of numbers with one odd token: the first, the last needed, or the one
\* after the last needed
TokLines ==
    UNION {{[label |-> l, toks |-> [Nums(1, Need(l) + 1) EXCEPT ![p] = tok]] :
               p \in {1, Need(l), Need(l) + 1}, tok \in OddToks} :
           l \in {"events", "bytes", "op_READ"}}

AgeLines ==
    {[label |-> "age", toks |-> t] :
        t \in {<<>>, <<Num(7200)>>, <<Num(0)>>, <<Tok("x", 0)>>, <<Tok("neg", 5)>>,
               <<Num(7), Tok("x", 0)>>, <<Tok("ovf", 0)>>}}

\* device lines of each fstype, with and without a field after the fstype
DeviceLines ==
    {[label |-> "device", toks |-> <<Tok(fs, opt)>>] : fs \in FsTypes, opt \in {0, 1}}

\* NFS device lines of each mount path
DevicePathLines ==
    {[label |-> "device_path", toks |-> <<Tok(path, 0)>>] :
        path \in {"data", "home", "root", "spaced", "empty"}}

IterateLines ==
    CountLines \cup TokLines \cup AgeLines \cup DeviceLines \cup DevicePathLines

InitLine ==
    /\ config_mountpoints = TableAfterInit("enable")
    /\ cfgtrace = [ci |-> "enable", ret |-> 0, oom |-> FALSE, inited |-> TRUE]
    /\ enable_client_stats_per_mountpoint = 1
    /\ proc_self_mountstats_is_available = 1
    /\ pc = "line"
    /\ state \in {"start", "device_nfs", "device_nfs_per_opt_stats"}
    /\ mountstats \in InProgress(state)
    /\ curline \in IterateLines
    /\ failed = {}
    /\ consumed = <<>>
    /\ submitted = <<>>
    /\ emitted = <<>>
    /\ result = "running"

NextLine == Iterate

SpecLine == InitLine /\ [][NextLine]_vars

-----------------------------------------------------------------------------
(* What the report format says of each input line, read off the line by hand:
   dev  - "nfs": device line of an NFS mount (mp its mount path); "other":
          device line of another file system; "bad": device line that lacks
          a marker; "": no device line
   attr - the line inside a block before "per-op statistics": "age" (value
          age), "perop" (the section header), "ignored", or "bad"
   op   - the line inside the per-op section: "ok" (operation name), "blank",
          or "bad"
   bad  - for a malformed line, what is wrong with it *)

Tag(dev, mp, attr, age, op, name, bad) ==
    [dev |-> dev, mp |-> mp, attr |-> attr, age |-> age, op |-> op,
     name |-> name, bad |-> bad]

S_READ == <<"R", "E", "A", "D">>
S_WRITE == <<"W", "R", "I", "T", "E">>

LineTag(id) ==
    CASE id = "dev_data" -> Tag("nfs", S_data, "", 0, "", <<>>, "")
      [] id = "dev_home" -> Tag("nfs", S_home, "", 0, "", <<>>, "")
      [] id = "dev_ext4" -> Tag("other", NULL, "", 0, "", <<>>, "")
      [] id = "dev_nofs" -> Tag("bad", NULL, "", 0, "", <<>>, "marker")
      [] id = "dev_nomnt" -> Tag("bad", NULL, "", 0, "", <<>>, "marker")
      [] id = "dev_trail" -> Tag("bad", <<>>, "", 0, "", <<>>, "marker")
      [] id = "opts" -> Tag("", NULL, "ignored", 0, "bad", <<>>, "integer")
      [] id = "age_7200" -> Tag("", NULL, "age", 7200, "bad", <<>>, "count")
      [] id = "age_1800" -> Tag("", NULL, "age", 1800, "bad", <<>>, "count")
      [] id = "events_ok" -> Tag("", NULL, "events", 0, "bad", <<>>, "count")
      [] id = "bytes_ok" -> Tag("", NULL, "bytes", 0, "bad", <<>>, "integer")
      [] id = "xprt_udp" -> Tag("", NULL, "xprt", 0, "bad", <<>>, "integer")
      [] id = "events_bad" -> Tag("", NULL, "bad", 0, "bad", <<>>, "integer")
      [] id = "events_short" -> Tag("", NULL, "bad", 0, "bad", <<>>, "count")
      [] id = "xprt_bad" -> Tag("", NULL, "bad", 0, "bad", <<>>, "marker")
      [] id = "perop" -> Tag("", NULL, "perop", 0, "bad", <<>>, "marker")
      [] id = "op_read" -> Tag("", NULL, "ignored", 0, "ok", S_READ, "")
      [] id = "op_write" -> Tag("", NULL, "ignored", 0, "ok", S_WRITE, "")
      [] id = "op_short" -> Tag("", NULL, "ignored", 0, "bad", <<>>, "count")
      [] id = "op_nocolon" -> Tag("", NULL, "ignored", 0, "bad", <<>>, "marker")
      [] id = "blank" -> Tag("", NULL, "ignored", 0, "blank", <<>>, "")

\* what a record says of its block: mount path, age, operation names in order
NoBlock == [mountpoint |-> NULL, age |-> 0, ops |-> <<>>]
BlockOf(m) ==
    [mountpoint |-> m.mountpoint, age |-> m.age,
     ops |-> [i \in 1..m.nb_op |-> m.op[i].op_name]]
BlocksOf(records) == [i \in 1..Len(records) |-> BlockOf(records[i])]

\* the blocks closed so far with the block in progress closed as well
Closed(done, cur) == IF cur.mountpoint = NULL THEN done ELSE Append(done, cur)

\* reading the lines ids[k..] by the report format from o on: q is "start"
\* (between blocks), "nfs" (in a block), "perop" (in its per-op section) or
\* "bad" (a malformed line was met, of kind bad); cur is the block in
\* progress, done the blocks closed before it
RECURSIVE Format(_, _, _)
Format(ids, k, o) ==
    IF k > Len(ids) \/ o.q = "bad" THEN o
    ELSE LET t == LineTag(ids[k])
         IN  Format(ids, k + 1,
               IF t.dev = "nfs"
               THEN [q |-> "nfs", bad |-> "", done |-> Closed(o.done, o.cur),
                     cur |-> [mountpoint |-> t.mp, age |-> 0, ops |-> <<>>]]
               ELSE IF t.dev = "other"
               THEN [q |-> "start", bad |-> "", done |-> Closed(o.done, o.cur),
                     cur |-> NoBlock]
               ELSE IF t.dev = "bad"
               THEN [q |-> "bad", bad |-> t.bad, done |-> Closed(o.done, o.cur),
                     cur |-> NoBlock]
               ELSE IF o.q = "start"
               THEN [o EXCEPT !.q = "bad", !.bad = "stray"]
               ELSE IF o.q = "nfs"
               THEN IF t.attr = "age" THEN [o EXCEPT !.cur.age = t.age]
                    ELSE IF t.attr = "perop" THEN [o EXCEPT !.q = "perop"]
                    ELSE IF t.attr = "bad" THEN [o EXCEPT !.q = "bad", !.bad = t.bad]
                    ELSE o
               ELSE IF t.op = "ok" THEN [o EXCEPT !.cur.ops = Append(@, t.name)]
                    ELSE IF t.op = "blank" THEN o
                    ELSE [o EXCEPT !.q = "bad", !.bad = t.bad])

Read(ids) ==
    Format(ids, 1, [q |-> "start", bad |-> "", done |-> <<>>, cur |-> NoBlock])

IsPrefix(a, b) == Len(a) <= Len(b) /\ SubSeq(b, 1, Len(a)) = a
Last(q) == q[Len(q)]

\* the results of a pass that read its input to a point and was not cut short
\* by an allocation or read failure
PassResults == {"running", "ok", "parse_error", "assert_r", "assert_start"}

\* the step is one iteration of the parse loop
LineStep == pc = "parsing" /\ Len(consumed') = Len(consumed) + 1

-----------------------------------------------------------------------------
(* Claims *)

C1Holds(o) ==
    (result \in PassResults /\ o.q # "bad") =>
        /\ result \in {"running", "ok"}
        /\ BlocksOf(submitted) = IF result = "ok" THEN Closed(o.done, o.cur) ELSE o.done

\* C1: on an input of well-formed device blocks (NFS blocks with valid lines,
\* other device lines alone) a pass raises no error and hands the dispatcher
\* the record of each NFS block exactly once, in input order: the records
\* submitted are those of the blocks closed so far, and of all blocks at EOF.
C1_EachNfsBlockDispatchedOnceInOrder == C1Holds(Read(consumed))

\* two consecutive NFS blocks were read to the end: two dispatches, in order
C1_Witness ==
    /\ result = "ok"
    /\ consumed = <<"dev_data", "dev_home">>
    /\ Len(submitted) = 2
    /\ submitted[1].mountpoint = S_data
    /\ submitted[2].mountpoint = S_home

C2State(o) ==
    (result \in PassResults /\ o.q = "bad" /\ o.bad \in {"integer", "marker", "count"}) =>
        /\ result = "parse_error"
        /\ pc = "idle"
        /\ mountstats = ZeroStats
        /\ BlocksOf(submitted) = o.done

C2Step ==
    /\ pc = "parsing" => (IsPrefix(submitted, submitted') /\ IsPrefix(emitted, emitted'))
    /\ result = "parse_error" => (consumed' = <<>> /\ submitted' = <<>>)

\* C2 as claimed: a malformed line (bad integer, missing marker, count
\* mismatch) met inside a record ends the pass with a parse error: the record in
\* progress is cleared and not dispatched, the records submitted are those of
\* the blocks closed before the line, what was dispatched stays as it was, and
\* nothing more of this input is read or dispatched (only a new pass follows).
C2_Claimed_MalformedLineAbortsPass == [](C2State(Read(consumed))) /\ [][C2Step]_vars

C3Step ==
    /\ (LineStep /\ LineTag(Last(consumed')).dev # "" /\ mountstats.mountpoint # NULL)
        => /\ submitted' = Append(submitted, mountstats)
           /\ mountstats' \in {ZeroStats,
                  [ZeroStats EXCEPT !.mountpoint = LineTag(Last(consumed')).mp]}
           /\ state' = IF mountstats'.mountpoint = NULL THEN "start" ELSE "device_nfs"
    /\ (pc = "parsing" /\ result' = "ok")
        => /\ submitted' = IF mountstats.mountpoint # NULL
                           THEN Append(submitted, mountstats) ELSE submitted
           /\ mountstats' = ZeroStats

\* C3: in every parser state a device line and the end of input close the
\* record in progress: it is handed to the dispatcher as it stands and cleared;
\* after a device line the parser is in Start, or in DeviceNFS with a record
\* that holds nothing but the new mount path.
C3_DeviceLineAndEofCloseRecord == [][C3Step]_vars

\* a device line met in the per-op section closed the first block, and the end
\* of input closed the second, which has no per-op section
C3_Witness ==
    /\ result = "ok"
    /\ consumed = <<"dev_data", "perop", "op_read", "dev_home", "age_7200">>
    /\ Len(submitted) = 2
    /\ submitted[1].nb_op = 1
    /\ submitted[2].mountpoint = S_home
    /\ submitted[2].age = 7200

\* the step reads, in state Start, a line that does not begin with "device"
StrayLineStep ==
    LineStep /\ state = "start" /\ LineTag(Last(consumed')).dev = ""

\* C4 as claimed: in state Start a line that does not begin with "device" is
\* ignored: no parse error, the pass goes on, state and record unchanged.
C4_Claimed_StrayLineIgnored ==
    [][StrayLineStep =>
          (result' = "running" /\ pc' = "parsing"
           /\ state' = state /\ mountstats' = mountstats)]_vars

\* C4 as amended: in state Start a line that does not begin with "device" is
\* a parse error: the pass ends there with the record empty and nothing
\* dispatched for the line.
C4_StrayLineIsParseError ==
    [][StrayLineStep =>
          (result' = "parse_error" /\ pc' = "idle"
           /\ mountstats' = ZeroStats /\ submitted' = submitted)]_vars

\* a line after a skipped non-NFS device line ended the pass
C4_Witness ==
    /\ result = "parse_error"
    /\ consumed = <<"dev_ext4", "opts">>
    /\ pc = "idle"

\* the policy the configuration id states for mount path mp, read off the
\* configuration by hand: sel is "all", "subset" (of the names in set) or "none"
Policy(show, min_age, sel, set) ==
    [show |-> show, min_age |-> min_age, sel |-> sel, set |-> set]

Configured(id, mp) ==
    CASE id = "enable" -> Policy(1, DEFAULT_MIN_AGE, "none", {})
      [] id = "hide_data" ->
            IF mp = S_data THEN Policy(0, 0, "none", {}) ELSE Policy(1, 0, "all", {})
      [] id = "subset" ->
            IF mp = S_data THEN Policy(1, 3600, "subset", {S_read, S_write})
            ELSE Policy(1, DEFAULT_MIN_AGE, "none", {})
      [] id = "subset_all" ->
            IF mp = S_home THEN Policy(1, 1800, "none", {})
            ELSE Policy(1, 0, "subset", {S_read, S_write})

\* the record is held back by the show / min-age filter of policy p
Filtered(p, m) == p.show = 0 \/ (p.min_age # 0 /\ m.age < p.min_age)

IsPerop(sample) == sample.type = "nfsclient_perop"

\* the per-operation samples among samples, as <<operation name, values>>
PeropOf(samples) ==
    LET q == SelectSeq(samples, IsPerop)
    IN  [i \in 1..Len(q) |-> <<q[i].type_instance, q[i].values>>]

\* the operations of m whose name is in set, as <<operation name, values>>
OpsIn(m, set) ==
    LET Named(o) == o.op_name \in set
        q == SelectSeq(m.op, Named)
    IN  [i \in 1..Len(q) |-> <<q[i].op_name, q[i].op>>]

\* a dispatch of the record mountstats was made under configuration cfgtrace.ci
Dispatched == pc = "dispatched" /\ submitted = <<mountstats>>

C5Claim(p) ==
    (Dispatched /\ p.sel = "all" /\ ~Filtered(p, mountstats)) =>
        PeropOf(emitted) = OpsIn(mountstats, OpNames)

\* C5 as claimed: with selector All (perop_statistics "all") the dispatch of a
\* record that passes the show / min-age filter emits one per-operation sample
\* for every operation of the record, whatever its name.
C5_Claimed_AllEmitsEveryOp == C5Claim(Configured(cfgtrace.ci, mountstats.mountpoint))

C6Holds(p) ==
    (Dispatched /\ ~Filtered(p, mountstats)) =>
        /\ p.sel = "subset" => PeropOf(emitted) = OpsIn(mountstats, p.set)
        /\ p.sel = "none" => PeropOf(emitted) = <<>>

\* C6: with selector Subset(S) the dispatch emits a per-operation sample for
\* exactly the operations of the record whose name is in S, in the order of the
\* record and with repeated names repeated; with selector None it emits no
\* per-operation sample.
C6_SubsetEmitsExactlyTheSelected == C6Holds(Configured(cfgtrace.ci, mountstats.mountpoint))

\* S = {read, write}, operations read, write, lookup: samples for read and write
C6_Witness ==
    /\ Dispatched
    /\ cfgtrace.ci = "subset"
    /\ mountstats.mountpoint = S_data
    /\ mountstats.age = 7200
    /\ [i \in 1..mountstats.nb_op |-> mountstats.op[i].op_name] = <<S_read, S_write, S_lookup>>
    /\ PeropOf(emitted) = <<<<S_read, OpStat(S_read).op>>, <<S_write, OpStat(S_write).op>>>>

C7Holds(p) ==
    Dispatched =>
        /\ emitted = <<>> <=> (p.show = 0 \/ (p.min_age # 0 /\ mountstats.age < p.min_age))
        /\ (p.show = 1 /\ p.min_age = 3600 /\ mountstats.age = 1800) => emitted = <<>>
        /\ (p.show = 1 /\ p.min_age = 3600 /\ mountstats.age \in {3600, 7200}) => emitted # <<>>
        /\ (p.show = 1 /\ p.min_age = 0) => emitted # <<>>

\* C7: a dispatch emits nothing exactly when the policy of the mount has show
\* false, or a min age other than 0 that the age of the record is below; an
\* age equal to the min age passes, a min age of 0 holds nothing back, and with
\* min age 3600 age 1800 is held back and age 7200 passes.
C7_FilterHoldsBackExactly == C7Holds(Configured(cfgtrace.ci, mountstats.mountpoint))

\* min_age 3600 (the default of the synthesized wildcard), age 1800: nothing out
C7_Witness ==
    /\ Dispatched
    /\ cfgtrace.ci = "enable"
    /\ mountstats.age = 1800
    /\ emitted = <<>>

\* the table that holds nothing but the entry of key
Only(table, key) == [alloc |-> TRUE, tree |-> [k \in {key} |-> table.tree[key]]]

C8Holds(own) ==
    Dispatched =>
        /\ emitted = mountstats_submit(
                         Only(config_mountpoints, IF own THEN mountstats.mountpoint ELSE ALL),
                         mountstats).samples
        /\ cfgtrace.ci = "hide_data" => (emitted = <<>> <=> mountstats.mountpoint = S_data)

\* C8: the samples of a dispatch are those the entry of the record's mount path
\* alone yields when the table has such an entry, and those the entry "all"
\* alone yields otherwise; with show false on /data and show true on "all"
\* every sample of /data is held back and none of another mount.
C8_OwnEntryBeforeWildcard ==
    C8Holds(mountstats.mountpoint \in DOMAIN config_mountpoints.tree)

\* /data has its own entry with show false beside a wildcard with show true
C8_Witness ==
    /\ Dispatched
    /\ cfgtrace.ci = "hide_data"
    /\ mountstats.mountpoint = S_data
    /\ c_avl_has(config_mountpoints, ALL)
    /\ config_mountpoints.tree[ALL].show = 1
    /\ emitted = <<>>

\* C9: whenever the dispatcher can run (a parse pass is under way) the filter
\* table exists and holds an entry for "all", and no run of the plugin ends in
\* a failure of assert(r == 0), whatever configuration loads (that succeed or
\* fail), inits and read cycles came before.
C9_WildcardPresentAtDispatch ==
    /\ result # "assert_r"
    /\ pc = "parsing" =>
          (config_mountpoints.alloc /\ c_avl_has(config_mountpoints, ALL))

\* after a configuration load that failed, a record was dispatched under a
\* table whose only entry is the synthesized wildcard
C9_Witness ==
    /\ result = "ok"
    /\ submitted # <<>>
    /\ cfgtrace.ret = -1
    /\ DOMAIN config_mountpoints.tree = {ALL}

\* C10 as claimed: after a configuration load that failed on a malformed value
\* and the init that follows it, no read cycle runs the mountstats parser: the
\* plugin is disabled and the table torn down.
C10_Claimed_FailedLoadLeavesDisabled ==
    (cfgtrace.ci \in MalformedConfigIds /\ cfgtrace.ret = -1 /\ ~cfgtrace.oom
        /\ cfgtrace.inited) =>
        /\ proc_self_mountstats_is_available = 0
        /\ pc # "parsing"
        /\ submitted = <<>>

\* the mount paths configuration id names
ConfiguredKeys(id) ==
    {ConfigTree(id)[i].value :
        i \in {j \in 1..Len(ConfigTree(id)) : ConfigTree(id)[j].key = "mountpoint"}}

\* the step is a call of nfs_config_cb made after a load that succeeded
ReloadStep ==
    /\ pc = "idle"
    /\ cfgtrace.ci # "none"
    /\ cfgtrace.ret = 0
    /\ result' \in {"config", "assert_config"}

\* C11 as claimed: a configuration load made after an earlier load that
\* succeeded completes (its assert(config_mountpoints == NULL) holds) and, when
\* it succeeds, leaves a table that holds exactly the entries it configures.
C11_Claimed_ReloadReplacesTable ==
    [][ReloadStep =>
          /\ result' = "config"
          /\ pc' = "idle"
          /\ cfgtrace'.ret = 0 =>
                DOMAIN config_mountpoints'.tree = ConfiguredKeys(cfgtrace'.ci)]_vars

C12Step ==
    /\ (pc = "idle" /\ result' = "init" /\ enable_client_stats_per_mountpoint = 0)
          => proc_self_mountstats_is_available' = 0
    /\ (pc = "idle" /\ proc_self_mountstats_is_available = 0
        /\ result' \in {"running", "open_failed", "skipped"})
          => (result' = "skipped" /\ pc' = "idle" /\ submitted' = <<>> /\ emitted' = <<>>)
    /\ (proc_self_mountstats_is_available = 0 /\ proc_self_mountstats_is_available' # 0)
          => (result' = "init" /\ enable_client_stats_per_mountpoint # 0)

\* C12: an init made with the toggle for per-mount statistics off leaves the
\* mountstats path unavailable; while it is unavailable every read cycle skips
\* the parser and emits no per-mount sample, and only an init made with the
\* toggle on makes it available; no parse pass is ever under way while it is
\* unavailable, whether or not mountpoint entries are configured.
C12_ToggleOffNoParser ==
    [](pc = "parsing" => proc_self_mountstats_is_available # 0) /\ [][C12Step]_vars

\* a read cycle skipped the parser with the toggle off and /data configured
C12_Witness ==
    /\ result = "skipped"
    /\ cfgtrace.ci = "off_data"
    /\ cfgtrace.inited
    /\ enable_client_stats_per_mountpoint = 0
    /\ c_avl_has(config_mountpoints, S_data)
    /\ submitted = <<>>
    /\ emitted = <<>>

\* the iteration on curline is over
Iterated == pc # "line"

\* every token of line d is a number
AllNums(d) == \A i \in 1..Len(d.toks) : d.toks[i].t = "num"

\* the first n numbers of line d
FirstNums(d, n) == [i \in 1..n |-> d.toks[i].v]

\* an events: or bytes: line of numbers only was met in state DeviceNFS
CountedLine ==
    /\ Iterated
    /\ state = "device_nfs"
    /\ curline.label \in {"events", "bytes"}
    /\ AllNums(curline)

\* the line was accepted: its first n numbers are the field, the pass goes on
Accepted(field, n) ==
    /\ result = "running"
    /\ pc = "iterated"
    /\ field = FirstNums(curline, n)

\* the line ended the pass with a parse error and the record cleared
Rejected == result = "parse_error" /\ pc = "idle" /\ mountstats = ZeroStats

C13Claim(n, field) ==
    CountedLine => IF Len(curline.toks) = n THEN Accepted(field, n) ELSE Rejected

\* C13 as claimed: in state DeviceNFS an events: line is accepted only with
\* exactly 25 unsigned integers and a bytes: line only with exactly 8; any
\* other count, fewer or more, is a parse error that ends the pass.
C13_Claimed_ExactCount ==
    C13Claim(IF curline.label = "events" THEN 25 ELSE 8,
             IF curline.label = "events" THEN mountstats.events ELSE mountstats.bytes)

C13Holds(n, field) ==
    CountedLine => IF Len(curline.toks) >= n THEN Accepted(field, n) ELSE Rejected

\* C13 as amended: in state DeviceNFS an events: line is accepted when it
\* carries at least 25 unsigned integers and a bytes: line when it carries at
\* least 8: the first 25 (8) are stored and what follows them is not read;
\* fewer is a parse error that ends the pass with the record cleared.
C13_AtLeastCount ==
    C13Holds(IF curline.label = "events" THEN 25 ELSE 8,
             IF curline.label = "events" THEN mountstats.events ELSE mountstats.bytes)

\* an events: line of 26 numbers was accepted
C13_Witness ==
    /\ CountedLine
    /\ curline.label = "events"
    /\ Len(curline.toks) = 26
    /\ result = "running"
    /\ mountstats.events = [i \in 1..25 |-> i]

\* an xprt: line of numbers only was met in state DeviceNFS
XprtLine ==
    /\ Iterated
    /\ state = "device_nfs"
    /\ curline.label \in {"xprt_tcp", "xprt_udp", "xprt_rdma", "xprt_sctp"}
    /\ AllNums(curline)

\* the kind token of the line
KindOf(label) ==
    CASE label = "xprt_tcp" -> "tcp" [] label = "xprt_udp" -> "udp"
      [] label = "xprt_rdma" -> "rdma" [] OTHER -> "none"

\* the line was accepted with k numbers: kind and transport[0..k-1] are set
XprtAccepted(k) ==
    /\ result = "running"
    /\ pc = "iterated"
    /\ mountstats.xprt_type = KindOf(curline.label)
    /\ SubSeq(mountstats.xprt, 1, k) = FirstNums(curline, k)

C14Claim(k) ==
    XprtLine => IF curline.label # "xprt_sctp" /\ Len(curline.toks) = k
                THEN XprtAccepted(k) ELSE Rejected

\* C14 as claimed: an xprt: line is accepted only when its kind is tcp, udp or
\* rdma and it carries exactly K integers, K = 7 for tcp, 10 for udp, 19 for
\* rdma; it then sets the kind and transport[0..K-1]; another kind or another
\* count is a parse error.
C14_Claimed_XprtCounts ==
    C14Claim(CASE curline.label = "xprt_tcp" -> 7 [] curline.label = "xprt_udp" -> 10
               [] OTHER -> 19)

C14Holds(k) ==
    XprtLine => IF curline.label # "xprt_sctp" /\ Len(curline.toks) >= k
                THEN XprtAccepted(k) ELSE Rejected

\* C14 as amended: an xprt: line is accepted when its kind is tcp, udp or rdma
\* and it carries at least K integers, K = 10 for tcp, 7 for udp, 19 for rdma;
\* it then sets the kind and transport[0..K-1] to the first K integers; another
\* kind, or fewer than K integers, is a parse error with the record cleared.
C14_XprtCounts ==
    C14Holds(CASE curline.label = "xprt_tcp" -> 10 [] curline.label = "xprt_udp" -> 7
               [] OTHER -> 19)

\* an xprt: tcp line of 10 numbers was accepted over a record that held udp
C14_Witness ==
    /\ XprtLine
    /\ curline = [label |-> "xprt_tcp", toks |-> Nums(1, 10)]
    /\ result = "running"
    /\ mountstats.xprt_type = "tcp"
    /\ mountstats.age = 5
    /\ SubSeq(mountstats.xprt, 1, 10) = [i \in 1..10 |-> i]

\* an age: line was met in state DeviceNFS
AgeLine == Iterated /\ state = "device_nfs" /\ curline.label = "age"

C15Claim(toks) ==
    AgeLine =>
        /\ (Len(toks) = 1 /\ toks[1].t = "num") =>
              (result = "running" /\ mountstats.age = toks[1].v)
        /\ (Len(toks) = 1 /\ toks[1].t = "neg") =>
              (result = "running" /\ mountstats.age = 0 - toks[1].v)
        /\ (toks = <<>> \/ (Len(toks) = 1 /\ toks[1].t \in {"x", "ovf"})) => Rejected

\* C15 as claimed: in state DeviceNFS an age: line sets the age to its integer,
\* and is a parse error (pass ended, record cleared) when the integer is
\* missing (age: followed by white space and the newline only) or is no valid
\* integer (a non-numeric token, a number out of range).
C15_Claimed_AgeValidated == C15Claim(curline.toks)

\* a line of more numbers than string_to_array_of_Lu is asked for was given to
\* it: events: or bytes: in state DeviceNFS, an operation in the per-op section
TokenizedLine ==
    /\ Iterated
    /\ Len(curline.toks) > 0
    /\ \/ state = "device_nfs" /\ curline.label \in {"events", "bytes"}
       \/ state = "device_nfs_per_opt_stats" /\ curline.label = "op_READ"

\* one of the first n tokens is no valid unsigned integer: it begins with a
\* sign or a letter, or it is out of range
OddAmongFirst(toks, n) ==
    \E i \in 1..n : i <= Len(toks) /\ toks[i].t \in {"x", "neg", "plus", "ovf"}

\* the value of a valid token
TokValue(tok) == IF tok.t = "max" THEN ULLONG_MAX ELSE tok.v

C16Claim(n, field) ==
    (TokenizedLine /\ Len(curline.toks) > n) =>
        IF OddAmongFirst(curline.toks, n)
        THEN result = "parse_error"
        ELSE /\ result = "running"
             /\ field = [i \in 1..n |-> TokValue(curline.toks[i])]

\* C16 as claimed: string_to_array_of_Lu fails whenever one of the first n
\* tokens is no valid unsigned integer (a token that begins with a non-digit,
\* a leading - or + included, or one out of range), so that its caller ends the
\* pass with a parse error; it succeeds otherwise, and the values it returns
\* are those of the tokens.
C16_Claimed_OddTokenFails ==
    C16Claim(CASE curline.label = "events" -> 25 [] curline.label = "bytes" -> 8
               [] OTHER -> 8,
             CASE curline.label = "events" -> mountstats.events
               [] curline.label = "bytes" -> mountstats.bytes
               [] OTHER -> IF mountstats.nb_op > 0
                           THEN mountstats.op[mountstats.nb_op].op ELSE <<>>)

\* a device line was given to the loop body, and memory was not short
DeviceLine == Iterated /\ curline.label = "device" /\ result # "oom"

\* the record a device line for /data starts
Started ==
    /\ state = "device_nfs"
    /\ result = "running"
    /\ mountstats = [ZeroStats EXCEPT !.mountpoint = S_data]

\* the line started nothing and raised no error
Skipped == state = "start" /\ result = "running" /\ mountstats = ZeroStats

C17Claim(nfs) == DeviceLine => IF nfs THEN Started ELSE Skipped

\* C17 as claimed: a device line whose fstype is nfs, nfs2, nfs3 or nfs4 starts
\* a record (state DeviceNFS, mountpoint set); a device line of any other
\* fstype creates no record, raises no error and leaves the state at Start.
C17_Claimed_OnlyFourFstypes ==
    C17Claim(curline.toks[1].t \in {"nfs", "nfs2", "nfs3", "nfs4"})

\* the fstype is "nfs" alone or "nfs" followed by 2, 3 or 4 and anything
NfsLike(fs) == HasPrefix(fs, L_nfs) /\ (Len(fs) = 3 \/ fs[4] \in {"2", "3", "4"})

\* C17: a device line whose fstype is nfs, or begins with nfs2, nfs3 or nfs4
\* (nfs41 included), starts a record: the state becomes DeviceNFS and the
\* mountpoint is set; a device line of any other fstype (ext4, nfsd, nfs5,
\* fuse.nfs) creates no record, raises no error and leaves the state at Start.
C17_FstypeByFourthCharacter == C17Claim(NfsLike(FsText(curline.toks[1].t)))

\* a device line of fstype nfs4 started a record, with a record in progress
\* before it or without
C17_Witness ==
    /\ DeviceLine
    /\ curline.toks[1].t = "nfs4"
    /\ Started

\* C18 as claimed: every record handed to the dispatcher has a non-empty
\* mountpoint: no record whose mountpoint is absent (NULL) or the empty string
\* is ever dispatched, whatever the input.
C18_Claimed_DispatchedMountpointNonEmpty ==
    \A i \in 1..Len(submitted) : submitted[i].mountpoint \notin {NULL, <<>>}

\* the step reads, in the per-op section, a line that is no device line
PerOpLineStep ==
    /\ LineStep
    /\ state = "device_nfs_per_opt_stats"
    /\ LineTag(Last(consumed')).dev = ""
    /\ result' # "oom"

\* the 8 integers of the per-op lines of 8 integers, read off the lines
OpMetrics(id) ==
    IF id = "op_read" THEN [j \in 1..8 |-> j] ELSE [j \in 1..8 |-> 10 + j]

C19Step(id, t) ==
    PerOpLineStep =>
        /\ t.op = "ok" =>
              /\ result' = "running"
              /\ state' = "device_nfs_per_opt_stats"
              /\ mountstats'.nb_op = mountstats.nb_op + 1
              /\ mountstats'.op = Append(mountstats.op,
                                         [op_name |-> t.name, op |-> OpMetrics(id)])
              /\ submitted' = submitted
        /\ t.op = "bad" =>
              /\ result' = "parse_error"
              /\ mountstats' = ZeroStats
              /\ submitted' = submitted

\* C19 as claimed: in the per-op section a line "<name>: <8 integers>" appends
\* exactly one OpStat at the end of the operations (the name is the text before
\* the first ':', the metrics are the 8 integers), whatever the names already
\* there, so that the operations are the accepted lines in the order met,
\* duplicates kept; a line with fewer than 8 integers is a parse error and
\* appends nothing.
C19_Claimed_PerOpLineAppendsOne ==
    [][C19Step(Last(consumed'), LineTag(Last(consumed')))]_vars

\* the types of the four samples every dispatch emits, for a record of kind
FixedTypes(kind) ==
    <<"uptime", "nfsclient_events", "nfsclient_bytes",
      CASE kind = "tcp" -> "nfsclient_xprttcp"
        [] kind = "udp" -> "nfsclient_xprtudp"
        [] kind = "rdma" -> "nfsclient_xprtrdma">>

C20Holds(p) ==
    (Dispatched /\ ~Filtered(p, mountstats)) =>
        /\ Len(emitted) >= 4
        /\ [i \in 1..4 |-> emitted[i].type] = FixedTypes(mountstats.xprt_type)
        /\ emitted[1].values = <<mountstats.age>>
        /\ emitted[2].values = mountstats.events
        /\ emitted[3].values = mountstats.bytes
        /\ \A i \in 5..Len(emitted) : IsPerop(emitted[i])
        /\ p.sel = "subset" =>
               PeropOf(emitted) = OpsIn(mountstats, p.set)
        /\ (p.sel = "none" \/ mountstats.nb_op = 0) => Len(emitted) = 4

\* C20: the dispatch of a record that passes the show / min-age filter calls
\* plugin_dispatch_values exactly once for each of uptime, client events,
\* client bytes and client transport, in that order, and after them for
\* per-operation samples only (those of the selected operations); the four are
\* emitted also for a record with no operation, and whichever of the calls
\* return an error, none of the later ones is left out.
C20_FourEmissionsThenPerOp == C20Holds(Configured(cfgtrace.ci, mountstats.mountpoint))

\* the second call (client events) failed and the bytes, transport and two
\* per-operation samples were emitted after it
C20_Witness ==
    /\ Dispatched
    /\ failed = {2}
    /\ cfgtrace.ci = "subset"
    /\ mountstats.mountpoint = S_data
    /\ mountstats.age = 7200
    /\ mountstats.nb_op = 3
    /\ Len(emitted) = 6
    /\ emitted[3].type = "nfsclient_bytes"

-----------------------------------------------------------------------------
(* One configuration load alone: nfs_config_cb applied to a block that sets
   perop_statistics for /data to one string *)

\* perop_statistics strings are at most this long
MaxSel == 4

SelAlphabet == {"a", "l", ",", ";", " ", "\t"}

SelStrings ==
    UNION {SeqsOfLen(SelAlphabet, n) : n \in 0..MaxSel} \cup {S_read_write}

\* the <Plugin nfs> block that gives /data the perop_statistics string str
SelectorTree(str) ==
    <<Enable(1), Mountpoint(S_data, <<Child("perop_statistics", "string", str)>>)>>

InitSelector ==
    /\ config_mountpoints = NULLTREE
    /\ enable_client_stats_per_mountpoint = 0
    /\ proc_self_mountstats_is_available = 0
    /\ pc = "selector"
    /\ state = "start"
    /\ mountstats = ZeroStats
    /\ consumed = <<>>
    /\ submitted = <<>>
    /\ emitted = <<>>
    /\ result = "none"
    /\ cfgtrace = NoTrace
    /\ curline \in {[label |-> "perop_statistics", toks |-> str] : str \in SelStrings}
    /\ failed = {}

\* the assignments of nfs_config_cb with result r
SelectorApply(r, oomAt) ==
    /\ config_mountpoints' = r.table
    /\ enable_client_stats_per_mountpoint' = r.enable
    /\ cfgtrace' = [ci |-> "selector", ret |-> r.ret, oom |-> oomAt # 0,
                    inited |-> FALSE]
    /\ result' = "config"
    /\ pc' = "idle"

\* nfs_config_cb(ci) on the block of curline
NfsConfigSelector ==
    /\ pc = "selector"
    /\ \E oomAt \in {0, 2} :
           SelectorApply(nfs_config_cb(SelectorTree(curline.toks), 0, oomAt), oomAt)
    /\ UNCHANGED <<proc_self_mountstats_is_available, state, mountstats,
                   consumed, submitted, emitted, curline, failed>>

NextSelector == NfsConfigSelector

SpecSelector == InitSelector /\ [][NextSelector]_vars

\* the non-empty tokens of str between delimiters, read off the string: the
\* stretches of str without a delimiter that no such stretch extends
TokensOf(str, delims) ==
    {SubSeq(str, i, j) : i \in 1..Len(str), j \in 1..Len(str)} \cap
    {SubSeq(str, ij[1], ij[2]) :
        ij \in {x \in (1..Len(str)) \X (1..Len(str)) :
                   /\ x[1] <= x[2]
                   /\ \A k \in x[1]..x[2] : str[k] \notin delims
                   /\ (x[1] = 1 \/ str[x[1] - 1] \in delims)
                   /\ (x[2] = Len(str) \/ str[x[2] + 1] \in delims)}}

\* the load of the block succeeded
Loaded == pc = "idle" /\ cfgtrace.ci = "selector" /\ cfgtrace.ret = 0

C21Holds(str, item) ==
    IF str = <<>>
    THEN ~item.perop_statistics.alloc /\ item.perop_statistics_string = NULL
    ELSE IF str = ALL
    THEN ~item.perop_statistics.alloc /\ item.perop_statistics_string = ALL
    ELSE /\ item.perop_statistics.alloc
         /\ DOMAIN item.perop_statistics.tree
                = TokensOf(str, {" ", "\t", ",", ";"})
         /\ item.perop_statistics_string \notin {NULL, <<>>}
         /\ item.perop_statistics_string[1] # NUL

\* C21: the perop_statistics string of a mountpoint block gives the selector
\* of its entry: the empty string gives None (no string, no set), the string
\* "all" gives All ("all", no set), any other string gives Subset(S) (a set,
\* and a string that is not empty), S being exactly the non-empty tokens
\* between spaces, tabs, commas and semicolons.
C21_SelectorOfString ==
    Loaded => /\ c_avl_has(config_mountpoints, S_data)
              /\ C21Holds(curline.toks, config_mountpoints.tree[S_data])

\* "read, write" gave the set {read, write}
C21_Witness ==
    /\ Loaded
    /\ curline.toks = S_read_write
    /\ DOMAIN config_mountpoints.tree[S_data].perop_statistics.tree = {S_read, S_write}

\* the step leaves the parser as it was and the pass running
Untouched ==
    /\ mountstats' = mountstats
    /\ state' = state
    /\ result' = "running"
    /\ submitted' = submitted
    /\ emitted' = emitted

C22Step(id, t) ==
    /\ (LineStep /\ state = "device_nfs" /\ t.dev = "" /\ t.attr = "ignored")
          => Untouched
    /\ (LineStep /\ state = "device_nfs_per_opt_stats" /\ id = "blank")
          => Untouched
    /\ (LineStep /\ state = "device_nfs_per_opt_stats" /\ t.dev = ""
            /\ result' = "running")
          => state' = "device_nfs_per_opt_stats"

\* C22: in DeviceNFS a line that begins with none of age:, events:, bytes:,
\* xprt: and "per-op statistics" (opts:, a blank line, a per-op line) changes
\* neither the record nor the state and raises no error; in
\* DeviceNFSPerOpStats a blank line changes neither, and no line but a device
\* line takes the parser out of DeviceNFSPerOpStats while the pass goes on.
C22_UnmatchedLinesChangeNothing ==
    [][C22Step(Last(consumed'), LineTag(Last(consumed')))]_vars

\* an opts: line was passed over in DeviceNFS and a blank line in the per-op
\* section, and the lines after them were read as if they had not been there
C22_Witness ==
    /\ consumed = <<"dev_data", "opts", "perop", "blank", "op_read">>
    /\ result = "running"
    /\ state = "device_nfs_per_opt_stats"
    /\ mountstats.mountpoint = S_data
    /\ mountstats.nb_op = 1

\* the lines of ids from the last device line on: the block in progress
RECURSIVE OwnBlock(_, _)
OwnBlock(ids, k) ==
    IF k = 0 THEN <<>>
    ELSE IF LineTag(ids[k]).dev # "" THEN <<>>
    ELSE Append(OwnBlock(ids, k - 1), ids[k])

\* the line id is among ids, before the header of the per-op section if any
Has(ids, id) ==
    \E k \in 1..Len(ids) : ids[k] = id /\ \A j \in 1..(k - 1) : ids[j] # "perop"

\* each field of the record m whose line is not among the lines own of its
\* block is as clear_mountstats leaves it
AbsentFieldsZero(m, own) ==
    /\ ~Has(own, "age_7200") => m.age = 0
    /\ ~Has(own, "events_ok") => m.events = Zeros(25)
    /\ ~Has(own, "bytes_ok") => m.bytes = Zeros(8)
    /\ ~Has(own, "xprt_udp") => m.xprt = Zeros(19)
    /\ ~Has(own, "perop") => (m.op = <<>> /\ m.nb_op = 0)
    /\ Has(own, "events_ok") => m.events = [i \in 1..25 |-> i]
    /\ Has(own, "age_7200") => m.age = 7200

C23State(own) ==
    (pc = "parsing" /\ mountstats.mountpoint # NULL) =>
        AbsentFieldsZero(mountstats, own)

\* a step that hands a record to the dispatcher hands the record in progress
C23Step ==
    submitted' # submitted =>
        (submitted' = <<>> \/ submitted' = Append(submitted, mountstats))

\* C23: the record is cleared between blocks: at every point of a pass each
\* field of the record in progress (age, events, bytes, transport counters,
\* operations) whose line has not been met in the block in progress is zero or
\* empty, whatever the blocks before held, and the record handed to the
\* dispatcher at the end of a block is that record.
C23_AbsentFieldsAreZero ==
    [](C23State(OwnBlock(consumed, Len(consumed)))) /\ [][C23Step]_vars

\* a block with age, events and transport lines was dispatched, and after it
\* a block of the device line alone, whose record holds none of their values
C23_Witness ==
    /\ result = "ok"
    /\ consumed = <<"dev_data", "age_7200", "events_ok", "xprt_udp", "dev_home">>
    /\ Len(submitted) = 2
    /\ submitted[1].age = 7200
    /\ submitted[1].events[25] = 25
    /\ submitted[1].xprt[1] = 1
    /\ submitted[2] = [ZeroStats EXCEPT !.mountpoint = S_home]

\* C24 as claimed: for an NFS device line "device <source> mounted on <path>
\* with fstype nfs..." the mountpoint of the record the line starts is exactly
\* <path>, the text between the marker " mounted on " and the marker
\* " with fstype ", with neither marker text nor the rest of the line in it.
C24_Claimed_MountpointIsPath ==
    (Iterated /\ curline.label = "device_path" /\ result # "oom") =>
        /\ state = "device_nfs"
        /\ result = "running"
        /\ mountstats.mountpoint = PathText(curline.toks[1].t)

\* C25: at every point of a parse pass the parser is in Start exactly when no
\* record is in progress (the mountpoint is NULL): in DeviceNFS and
\* DeviceNFSPerOpStats a mountpoint is set, and the assertion
\* NULL == mountstats.mountpoint at the head of the Start case never fails.
C25_StartIffNoRecord ==
    /\ pc = "parsing" => (state = "start" <=> mountstats.mountpoint = NULL)
    /\ result # "assert_start"

\* the parser came back to Start, with no record, from the per-op section of
\* an NFS block on the device line of another file system
C25_Witness ==
    /\ pc = "parsing"
    /\ consumed = <<"dev_data", "perop", "op_read", "dev_ext4">>
    /\ state = "start"
    /\ mountstats.mountpoint = NULL
    /\ Len(submitted) = 1

IsXprt(sample) ==
    sample.type \in {"nfsclient_xprttcp", "nfsclient_xprtudp", "nfsclient_xprtrdma"}

\* the samples the step emits for the record in progress, whose block is own
C26Step(own) ==
    (pc = "parsing" /\ IsPrefix(emitted, emitted')) =>
        \A i \in (Len(emitted) + 1)..Len(emitted') :
            IsXprt(emitted'[i]) =>
                /\ Has(own, "xprt_udp")
                /\ emitted'[i].type = "nfsclient_xprtudp"

\* C26 as claimed: every transport sample emitted for a record reflects an
\* xprt: line of the block of that record: its kind is the kind that line
\* declared, and a record whose block has no xprt: line is reported with no
\* transport kind.
C26_Claimed_XprtSampleHasItsLine ==
    [][C26Step(OwnBlock(consumed, Len(consumed)))]_vars

\* C27 as claimed: however a parse pass ends (end of input, parse error,
\* allocation failure, read failure before the end of the file), the record in
\* progress has been cleared, its mountpoint and operations released, when the
\* pass returns.
C27_Claimed_ClearedOnEveryExit ==
    (pc = "idle" /\ result \in {"ok", "parse_error", "oom", "read_failed"}) =>
        mountstats = ZeroStats

\* the bounds of the operations array
C28State ==
    /\ 0 <= mountstats.nb_op
    /\ mountstats.nb_op <= mountstats.size_op
    /\ mountstats.size_op % 50 = 0
    /\ Len(mountstats.op) = mountstats.nb_op
    /\ mountstats.mountpoint = NULL => mountstats.size_op = 0

\* a per-op line either adds one operation, written at the place nb_op inside
\* the array as it is after the step, with its 8 metrics, or adds none
C28Step ==
    (pc = "line" /\ state = "device_nfs_per_opt_stats" /\ curline.label \notin
         {"device", "device_path"}) =>
        \/ /\ mountstats'.nb_op = mountstats.nb_op + 1
           /\ mountstats.nb_op < mountstats'.size_op
           /\ mountstats'.size_op \in {mountstats.size_op, mountstats.size_op + 50}
           /\ result' = "running"
           /\ Len(curline.toks) >= 8
           /\ \A i \in 1..mountstats.nb_op : mountstats'.op[i] = mountstats.op[i]
        \/ /\ mountstats' = mountstats
           /\ result' = "running"
        \/ /\ mountstats' = ZeroStats
           /\ result' \in {"parse_error", "oom"}

\* C28: at every point of a pass 0 <= nb_op <= size_op and size_op is a
\* multiple of 50 (0 when there is no record); a per-op line is written at
\* index nb_op with nb_op below size_op, the array grown by 50 first when it is
\* full, and nb_op is incremented only when the 8 metrics of the line were
\* parsed (a line that fails adds nothing).
C28_OperationsArrayBounds == []C28State /\ [][C28Step]_vars

\* the 51st operation of a block was stored after the array grew from 50 to 100
C28_Witness ==
    /\ Iterated
    /\ result = "running"
    /\ mountstats.nb_op = 51
    /\ mountstats.size_op = 100

====
